---- MODULE Spec2Model ----
(***************************************************************************)
(* Model of github.com/nettijoe96/bloom: the variable-length BigBloom      *)
(* filter (bigbloom.go), the fixed-length Bloom filter (bloom.go) and the  *)
(* rate helpers they share.                                                *)
(*                                                                         *)
(* A float64 in [0, 1] is modelled as a fixed-point number with 72 binary  *)
(* fraction digits.  A quotient and a difference are rounded as float64    *)
(* rounds them, to 53 significant bits, to nearest and to even; a power is *)
(* the truncated product rounded the same way.  The literal -1 and the two *)
(* infinities a division by zero produces are separate values.             *)
(***************************************************************************)
EXTENDS Integers, Sequences, FiniteSets, TLC

\* ------------------------------------------------------------------ bounds

\* largest byte length handed to a constructor
MaxLen == 1
\* largest k handed to NewBigBloomFromK / FromBytes
MaxK == 2
\* largest capacity handed to a constructor or to AddCapacityConstraint
MaxCap == 2
\* a capacity far above the bit count, handed to NewBigBloomAlloc
BigCap == 16
\* the largest len, n and k falsePositiveRate is called with on its own
MaxRateLen == 3
MaxRateN == 6
MaxRateK == 4
\* the number of goroutines that query one filter at a time
MaxGo == 2
\* the largest of the small hash counts of the filters that are filled up
MaxFillK == 9
\* the number of hash slots past the last nonce a byte can hold
MaxWrap == 2
\* the number of values of byte(i), the nonce of a hash slot
NonceCount == 256

\* ------------------------------------------------------------------- state

VARIABLES
    pc,        \* "new" before a constructor returned a filter, "live" with
               \* a filter, "crashed" after a panic
    b,         \* the *BigBloom the program holds
    pre,       \* b as it was when the last call was made
    ret,       \* the last call: [op, arg, err, val]
    inserted,  \* the elements for which PutBytes has returned a nil error
    atCap,     \* <<n>> once the filter has had a capacity attached with
               \* n == capacity, n the entry count at the first such state;
               \* << >> before
    built,     \* <<op, arg>>, the constructor call that returned the filter;
               \* << >> before
    queries,   \* the query each goroutine runs on the filter and how far it
               \* is, << >> in a program of one goroutine
    array,     \* <<c>> when the byte slice the goroutines pass to
               \* ExistsBytes has capacity left, c being the byte that
               \* follows its last element in its array; << >> when not
    twin       \* a second filter that is given the calls the first is
               \* given, NilFilter in a program of one filter

vars == <<pc, b, pre, ret, inserted, atCap, built, queries, array, twin>>

\* --------------------------------------------------------- errors, filters

\* the nil error
Nil == [type |-> "nil"]

\* ret before any call was made
NoCall == [op |-> "none", arg |-> << >>, err |-> Nil, val |-> << >>]

\* a BigBloom; the two pointer fields are << >> for nil and <<v>> for a
\* pointer to v
Filter(nn, kk, bytes, capacity, rate, loaded) ==
    [n |-> nn, k |-> kk, bs |-> bytes, len |-> Len(bytes), cap |-> capacity,
     maxFalsePositiveRate |-> rate, isLoaded |-> loaded]

\* the nil *BigBloom a failing constructor returns
NilFilter == Filter(0, 0, << >>, << >>, << >>, FALSE)

\* the 512-bit Bloom of bloom.go with k hash slots, empty and unconstrained
EmptyBloom(kk) ==
    [n |-> 0, k |-> kk, bs |-> [i \in 1..64 |-> 0], len |-> 64,
     cap |-> << >>, maxFalsePositiveRate |-> << >>]

CapacityError(c) == [type |-> "CapacityError", cap |-> c]
AccuracyError(a) == [type |-> "AccuracyError", acc |-> a]
ErrorsNew(msg) == [type |-> "error", msg |-> msg]
\* a run-time panic: the call does not return
Panic(msg) == [type |-> "panic", msg |-> msg]

\* ------------------------------------------------- fixed-point numbers
\* seven little-endian limbs in base 2^12: six fraction limbs, then the
\* integer part; the value is (sum of f[i] * 2^(12(i-1))) / 2^72

FixBase == 64 * 64
FixZero == <<0, 0, 0, 0, 0, 0, 0>>
FixOne == <<0, 0, 0, 0, 0, 0, 1>>

\* -1, 0, 1 as a < c, a = c, a > c
RECURSIVE FixCmpFrom(_, _, _)
FixCmpFrom(a, c, i) ==
    IF i = 0 THEN 0
    ELSE IF a[i] < c[i] THEN -1
    ELSE IF a[i] > c[i] THEN 1
    ELSE FixCmpFrom(a, c, i - 1)

FixCmp(a, c) == FixCmpFrom(a, c, 7)

\* the borrow into limb i of a - c
RECURSIVE FixBorrow(_, _, _)
FixBorrow(a, c, i) ==
    IF i = 1 THEN 0
    ELSE IF a[i - 1] - c[i - 1] - FixBorrow(a, c, i - 1) < 0 THEN 1 ELSE 0

\* a - c for a >= c
FixSubLimb(a, c, i) == (a[i] - c[i] - FixBorrow(a, c, i) + FixBase) % FixBase

FixSub(a, c) ==
    <<FixSubLimb(a, c, 1), FixSubLimb(a, c, 2), FixSubLimb(a, c, 3),
      FixSubLimb(a, c, 4), FixSubLimb(a, c, 5), FixSubLimb(a, c, 6),
      FixSubLimb(a, c, 7)>>

\* the carry into limb i of a + c
RECURSIVE FixCarry(_, _, _)
FixCarry(a, c, i) ==
    IF i = 1 THEN 0
    ELSE (a[i - 1] + c[i - 1] + FixCarry(a, c, i - 1)) \div FixBase

\* a + c for a + c < 2^12
FixAddLimb(a, c, i) == (a[i] + c[i] + FixCarry(a, c, i)) % FixBase

FixAdd(a, c) ==
    <<FixAddLimb(a, c, 1), FixAddLimb(a, c, 2), FixAddLimb(a, c, 3),
      FixAddLimb(a, c, 4), FixAddLimb(a, c, 5), FixAddLimb(a, c, 6),
      FixAddLimb(a, c, 7)>>

\* column j of the schoolbook product: the sum of a[i] * c[j - i + 1]
RECURSIVE FixColFrom(_, _, _, _)
FixColFrom(a, c, j, i) ==
    IF i > 7 \/ i > j THEN 0
    ELSE (IF j - i + 1 <= 7 THEN a[i] * c[j - i + 1] ELSE 0)
         + FixColFrom(a, c, j, i + 1)

\* the limbs of the product from column j up, t being column j's sum with
\* the carry into it
RECURSIVE FixMulFrom(_, _, _, _)
FixMulFrom(a, c, j, t) ==
    IF j = 13 THEN <<t % FixBase>>
    ELSE <<t % FixBase>>
         \o FixMulFrom(a, c, j + 1, FixColFrom(a, c, j + 1, 1) + t \div FixBase)

\* a * c for a, c <= 1, the low six limbs of the product dropped
FixMul(a, c) ==
    IF a = FixZero \/ c = FixZero THEN FixZero
    ELSE SubSeq(FixMulFrom(a, c, 1, FixColFrom(a, c, 1, 1)), 7, 13)

FixSquare(a) == FixMul(a, a)

\* acc * a^e by squaring: the bits of e from the lowest up
RECURSIVE FixPowTimes(_, _, _)
FixPowTimes(a, e, acc) ==
    IF e = 0 THEN acc
    ELSE IF a = FixZero \/ acc = FixZero THEN FixZero
    ELSE FixPowTimes(FixSquare(a), e \div 2,
                     IF e % 2 = 1 THEN FixMul(acc, a) ELSE acc)

FixPow(a, e) == FixPowTimes(a, e, FixOne)

\* limb i (6 down to 1) of the fraction rem / d
RECURSIVE FixRem(_, _, _)
FixRem(rem, d, i) ==
    IF i = 6 THEN rem
    ELSE (FixRem(rem, d, i + 1) * FixBase) % d

\* x / d for 0 <= x <= d, d < 2^19, the bits below 2^-72 dropped
FixRatioLimb(x, d, i) == (FixRem(x % d, d, i) * FixBase) \div d

FixFromRatio(x, d) ==
    <<FixRatioLimb(x, d, 1), FixRatioLimb(x, d, 2), FixRatioLimb(x, d, 3),
      FixRatioLimb(x, d, 4), FixRatioLimb(x, d, 5), FixRatioLimb(x, d, 6),
      x \div d>>

\* ------------------------------------------------- rounding to float64
\* bit q of a fixed-point number is the bit of weight 2^-q, 0 <= q <= 72

RECURSIVE Pow2(_)
Pow2(n) == IF n = 0 THEN 1 ELSE 2 * Pow2(n - 1)

\* the number of bits of v
RECURSIVE BitLen(_)
BitLen(v) == IF v = 0 THEN 0 ELSE 1 + BitLen(v \div 2)

\* the highest limb of x that is not 0, 0 when x is 0
RECURSIVE TopLimb(_, _)
TopLimb(x, i) ==
    IF i = 0 THEN 0
    ELSE IF x[i] # 0 THEN i
    ELSE TopLimb(x, i - 1)

\* the leading bit of x # 0
LeadBit(x) ==
    LET top == TopLimb(x, 7)
    IN  (7 - top) * 12 - BitLen(x[top]) + 1

\* the limb that holds bit q and the weight of bit q in it
BitLimb(q) == IF q = 0 THEN 7 ELSE 6 - ((q - 1) \div 12)
BitWeight(q) == IF q = 0 THEN 1 ELSE Pow2(11 - ((q - 1) % 12))

\* limb i of 2^-q, and 2^-q
FixBitLimb(q, i) == IF i = BitLimb(q) THEN BitWeight(q) ELSE 0

FixBit(q) ==
    <<FixBitLimb(q, 1), FixBitLimb(q, 2), FixBitLimb(q, 3), FixBitLimb(q, 4),
      FixBitLimb(q, 5), FixBitLimb(q, 6), FixBitLimb(q, 7)>>

\* limb i of x with the bits below bit q cleared, and that number
FixTruncLimb(x, q, i) ==
    IF i < BitLimb(q) THEN 0
    ELSE IF i = BitLimb(q) THEN x[i] - (x[i] % BitWeight(q))
    ELSE x[i]

FixTrunc(x, q) ==
    <<FixTruncLimb(x, q, 1), FixTruncLimb(x, q, 2), FixTruncLimb(x, q, 3),
      FixTruncLimb(x, q, 4), FixTruncLimb(x, q, 5), FixTruncLimb(x, q, 6),
      FixTruncLimb(x, q, 7)>>

\* x rounded to a multiple of 2^-q (q < 72), to the nearest one and to the
\* even one of two that are equally near
FixRoundAt(x, q) ==
    LET up == FixAdd(x, FixBit(q + 1))
        cut == FixTrunc(up, q)
    IN  IF up = cut /\ (cut[BitLimb(q)] \div BitWeight(q)) % 2 = 1
        THEN FixSub(cut, FixBit(q))
        ELSE cut

\* the float64 nearest to x: 53 significant bits, the last one 52 below the
\* leading bit.  A value whose last float64 bit lies at or below 2^-72 is
\* kept as it is.
Float64(x) ==
    IF x = FixZero \/ LeadBit(x) + 52 >= 72 THEN x
    ELSE FixRoundAt(x, LeadBit(x) + 52)

\* float64(x) / float64(d), the quotient rounded to float64.  Up to d = 512
\* no quotient of the model has its dropped bits halfway between two
\* float64 values, so rounding the bits down to 2^-72 rounds the quotient.
Float64Quo(x, d) == Float64(FixFromRatio(x, d))

\* x - y for x >= y, rounded to float64
Float64Sub(x, y) == Float64(FixSub(x, y))

\* math.Pow(x, y) for 0 <= x <= 1 and an integer y >= 0: Pow(x, 0) = 1 and
\* Pow(x, 1) = x are special cases of math.Pow; a higher power is the
\* product, correct below 2^-68, rounded to float64
Pow(x, y) ==
    IF y = 0 THEN FixOne
    ELSE IF y = 1 THEN x
    ELSE Float64(FixPow(x, y))

\* --------------------------------------------------------------- float64
\* [inf, neg, mag]: (-1)^neg * mag, or the infinity of that sign

Flt(x, d) == [inf |-> FALSE, neg |-> FALSE, mag |-> FixFromRatio(x, d)]
PosInf == [inf |-> TRUE, neg |-> FALSE, mag |-> FixZero]
NegInf == [inf |-> TRUE, neg |-> TRUE, mag |-> FixZero]
\* the literal -1 that Accuracy returns for a loaded filter
MinusOne == [inf |-> FALSE, neg |-> TRUE, mag |-> FixOne]

\* x > y
FloatGt(x, y) ==
    IF x.inf THEN ~x.neg /\ ~(y.inf /\ ~y.neg)
    ELSE IF y.inf THEN y.neg
    ELSE IF x.neg # y.neg THEN y.neg /\ ~(x.mag = FixZero /\ y.mag = FixZero)
    ELSE IF x.neg THEN FixCmp(x.mag, y.mag) = -1
    ELSE FixCmp(x.mag, y.mag) = 1

\* x <= y, x >= y
FloatLe(x, y) == ~FloatGt(x, y)
FloatGe(x, y) == ~FloatGt(y, x)

\* ------------------------------------------------------------ rate model

\* falsePositiveRate with the sum n + k for the exponent n * k
powRateSum(length, nn, kk) ==
    LET m == length * 8
        e == nn + kk
    IN  LET base == Float64Sub(FixOne, Float64Quo(1, m))
            inner == Float64Sub(FixOne, Pow(base, e))
        IN  [inf |-> FALSE, neg |-> FALSE, mag |-> Pow(inner, kk)]

\* (1 - (1 - 1/m)^(n*k))^k with m = 8*len.  With m = 0 the division yields
\* +Inf, base is -Inf, and math.Pow follows its special cases:
\* Pow(x, 0) = 1, Pow(-Inf, odd) = -Inf, Pow(-Inf, even > 0) = +Inf,
\* Pow(+Inf, y > 0) = +Inf.
powRate(length, nn, kk) ==
    LET m == length * 8
        e == nn * kk
    IN  IF m = 0
        THEN IF kk = 0 THEN Flt(1, 1)
             ELSE IF e = 0 THEN Flt(0, 1)
             ELSE IF e % 2 = 1 THEN PosInf
             ELSE IF kk % 2 = 1 THEN NegInf
             ELSE PosInf
        ELSE LET base == Float64Sub(FixOne, Float64Quo(1, m))
                 inner == Float64Sub(FixOne, Pow(base, e))
             IN  [inf |-> FALSE, neg |-> FALSE, mag |-> Pow(inner, kk)]

\* math.Log(2) in units of 10^-6
Ln2Micro == 693147
\* math.Log(.5) * math.Log(2) in units of 10^-6
LnHalfLn2Micro == -480453

\* math.Log(x) in units of 10^-6, for the rates of the model
LogMicro(x) ==
    CASE x = Flt(1, 64) -> -4158883
      [] x = Flt(1, 8) -> -2079442
      [] x = Flt(1, 4) -> -1386294
      [] x = Flt(1, 2) -> -693147
      [] x = Flt(7, 8) -> -133531

\* math.Log(base2) of calcKFromAcc in units of 10^-6, where
\* base2 = 1 - (1 - 1/m)^(ln(2) * m) and m = 8 * length > 0
LogBase2Micro(length) ==
    CASE length = 1 -> -647976
      [] length = 2 -> -671039
      [] length = 3 -> -678510
      [] length = 4 -> -682207
      [] length = 64 -> -692470

\* calcKFromCap without the floor of 1
calcKFromCapUnclamped(length, nn) ==
    LET m == length * 8
    IN  (2 * Ln2Micro * m + 1000000 * nn) \div (2 * 1000000 * nn)

\* calculate k from len of filter and capacity: ln(2) * m/n rounded to the
\* nearest int, 1 when that is below 1
calcKFromCap(length, nn) ==
    LET m == length * 8
    IN  IF Ln2Micro * m < 1000000 * nn
        THEN 1
        ELSE (2 * Ln2Micro * m + 1000000 * nn) \div (2 * 1000000 * nn)

\* calculate k from len of filter and accuracy: ln(acc) / ln(base2) rounded
\* to the nearest int, 1 when that is below 1.  With m = 0, base2 is 0, its
\* logarithm -Inf and the quotient 0.
calcKFromAcc(length, acc) ==
    IF length = 0 THEN 1
    ELSE IF -LogMicro(acc) < -LogBase2Micro(length)
    THEN 1
    ELSE (2 * (-LogMicro(acc)) + (-LogBase2Micro(length)))
             \div (2 * (-LogBase2Micro(length)))

\* the len NewBigBloomAlloc derives:
\* ceil((cap * ln(rate)) / (ln(.5) * ln(2)) / 8)
allocLen(capacity, rate) ==
    LET numerator == capacity * (-LogMicro(rate))
        denom == (-LnHalfLn2Micro) * 8
    IN  (numerator + denom - 1) \div denom

\* falsePositiveRate is a function of its three arguments only, so the rates
\* of the lengths, entry counts and slot counts the programs below ask for
\* most are computed once, by powRate, and looked up after that

\* row i of the table is for the byte length RateLen(i): the short lengths,
\* the two long ones NewBigBloomAlloc derives from BigCap, the 64 bytes of a
\* Bloom
RateLenCount == MaxLen + 5
RateLen(i) ==
    IF i <= MaxLen + 2 THEN i
    ELSE IF i = MaxLen + 3 THEN allocLen(BigCap, Flt(1, 8))
    ELSE IF i = MaxLen + 4 THEN allocLen(BigCap, Flt(1, 64))
    ELSE 64

\* the row of a length, 0 when it has none
RateLenIndex(length) ==
    IF length \in 1..(MaxLen + 2) THEN length
    ELSE IF length = RateLen(MaxLen + 3) THEN MaxLen + 3
    ELSE IF length = RateLen(MaxLen + 4) THEN MaxLen + 4
    ELSE IF length = 64 THEN MaxLen + 5
    ELSE 0

\* column j is for the entry count RateN(j): the small counts, then BigCap
\* and BigCap + 1
RateNCount == MaxCap + 5
RateN(j) ==
    IF j <= MaxCap + 3 THEN j - 1
    ELSE IF j = MaxCap + 4 THEN BigCap
    ELSE BigCap + 1

\* the column of an entry count, 0 when it has none
RateNIndex(nn) ==
    IF nn \in 0..(MaxCap + 2) THEN nn + 1
    ELSE IF nn = BigCap THEN MaxCap + 4
    ELSE IF nn = BigCap + 1 THEN MaxCap + 5
    ELSE 0

\* the slot counts 0..RateKs: up to the largest k a constructor derives
RateKs == calcKFromCap(MaxLen + 1, 1)

\* the rates of one length and entry count for the slot counts lo..hi, of
\* one length for the columns lo..hi, and of the rows lo..hi
RECURSIVE RateRow(_, _, _, _)
RateRow(length, nn, lo, hi) ==
    IF lo = hi THEN <<powRate(length, nn, lo)>>
    ELSE RateRow(length, nn, lo, (lo + hi) \div 2)
         \o RateRow(length, nn, (lo + hi) \div 2 + 1, hi)

RECURSIVE RatePlane(_, _, _)
RatePlane(length, lo, hi) ==
    IF lo = hi THEN <<RateRow(length, RateN(lo), 0, RateKs)>>
    ELSE RatePlane(length, lo, (lo + hi) \div 2)
         \o RatePlane(length, (lo + hi) \div 2 + 1, hi)

RECURSIVE RateRows(_, _)
RateRows(lo, hi) ==
    IF lo = hi THEN <<RatePlane(RateLen(lo), 1, RateNCount)>>
    ELSE RateRows(lo, (lo + hi) \div 2)
         \o RateRows((lo + hi) \div 2 + 1, hi)

RateTable == RateRows(1, RateLenCount)

falsePositiveRate(length, nn, kk) ==
    IF /\ RateLenIndex(length) > 0
       /\ RateNIndex(nn) > 0
       /\ kk \in 0..RateKs
    THEN RateTable[RateLenIndex(length)][RateNIndex(nn)][kk + 1]
    ELSE powRate(length, nn, kk)

\* used when both constraints are set to check compatability
constraintsCompatible(length, capacity, kk, allowedMaxFalsePositiveRate) ==
    LET calcMaxFalsePositiveRate == falsePositiveRate(length, capacity, kk)
    IN  IF FloatGt(calcMaxFalsePositiveRate, allowedMaxFalsePositiveRate)
        THEN FALSE
        ELSE TRUE

\* ---------------------------------------------------------- hash indexer

\* the first eight bytes of sha256.Sum256(element bytes followed by the
\* nonce byte), for the elements of the model and the nonces 0..255

\* sha256("test" ++ nonce)[0:8]
DigestsTest ==
    << <<206, 183, 55, 73, 200, 153, 105, 55>>, <<252, 9, 69, 104, 179, 9, 93, 164>>,
       <<191, 43, 233, 75, 143, 107, 168, 176>>, <<181, 237, 107, 2, 31, 161, 65, 117>>,
       <<155, 218, 19, 152, 143, 211, 1, 225>>, <<28, 169, 172, 47, 191, 119, 61, 204>>,
       <<18, 206, 167, 76, 181, 194, 121, 188>>, <<116, 79, 61, 41, 213, 125, 197, 209>>,
       <<99, 10, 207, 119, 98, 17, 87, 106>>, <<198, 156, 90, 138, 21, 208, 151, 146>>,
       <<242, 202, 27, 182, 199, 233, 7, 208>>, <<225, 142, 94, 108, 252, 89, 160, 121>>,
       <<30, 178, 206, 243, 94, 94, 244, 105>>, <<141, 216, 118, 110, 66, 69, 235, 108>>,
       <<123, 205, 110, 50, 198, 177, 162, 190>>, <<29, 32, 46, 93, 211, 122, 238, 3>>,
       <<109, 66, 134, 143, 68, 238, 87, 107>>, <<70, 164, 94, 251, 222, 23, 189, 118>>,
       <<151, 18, 157, 136, 52, 71, 230, 207>>, <<91, 245, 25, 186, 164, 56, 237, 144>>,
       <<238, 34, 132, 159, 188, 199, 20, 173>>, <<98, 211, 71, 123, 121, 79, 95, 31>>,
       <<225, 27, 105, 88, 23, 19, 178, 29>>, <<41, 207, 202, 18, 148, 21, 245, 33>>,
       <<50, 152, 233, 129, 73, 70, 194, 196>>, <<82, 117, 65, 154, 73, 197, 127, 12>>,
       <<106, 133, 148, 84, 144, 197, 11, 87>>, <<61, 55, 174, 24, 22, 189, 243, 8>>,
       <<219, 215, 82, 105, 5, 215, 179, 187>>, <<44, 4, 52, 107, 146, 142, 33, 161>>,
       <<145, 253, 103, 167, 234, 255, 145, 139>>, <<61, 75, 102, 185, 39, 42, 163, 215>>,
       <<35, 26, 167, 140, 82, 167, 74, 87>>, <<24, 130, 185, 27, 127, 73, 212, 121>>,
       <<253, 86, 201, 103, 90, 67, 164, 10>>, <<67, 74, 152, 159, 159, 53, 3, 251>>,
       <<4, 151, 104, 72, 176, 146, 197, 79>>, <<34, 238, 19, 205, 89, 50, 140, 180>>,
       <<29, 243, 57, 158, 131, 138, 66, 200>>, <<177, 106, 237, 69, 116, 172, 5, 13>>,
       <<136, 36, 4, 209, 129, 173, 172, 126>>, <<137, 240, 136, 196, 203, 173, 57, 50>>,
       <<227, 167, 211, 228, 3, 32, 134, 77>>, <<56, 87, 216, 85, 241, 11, 65, 119>>,
       <<191, 104, 45, 26, 201, 169, 92, 120>>, <<228, 148, 45, 148, 9, 134, 254, 155>>,
       <<78, 227, 223, 136, 246, 130, 211, 118>>, <<169, 99, 236, 164, 7, 202, 50, 103>>,
       <<89, 12, 159, 132, 48, 199, 67, 88>>, <<27, 79, 14, 152, 81, 151, 25, 152>>,
       <<96, 48, 58, 226, 43, 153, 136, 97>>, <<253, 97, 160, 58, 244, 247, 125, 135>>,
       <<164, 230, 36, 214, 134, 224, 62, 210>>, <<161, 64, 192, 193, 237, 162, 222, 242>>,
       <<237, 12, 185, 11, 223, 164, 249, 57>>, <<189, 124, 145, 18, 100, 170, 225, 91>>,
       <<31, 155, 254, 177, 95, 238, 138, 16>>, <<180, 69, 16, 52, 211, 182, 89, 0>>,
       <<90, 255, 97, 169, 232, 71, 188, 42>>, <<254, 26, 186, 108, 207, 64, 182, 64>>,
       <<6, 213, 32, 191, 165, 130, 186, 60>>, <<220, 204, 54, 180, 210, 177, 12, 192>>,
       <<93, 212, 101, 162, 27, 139, 219, 179>>, <<41, 206, 77, 186, 87, 189, 161, 67>>,
       <<177, 228, 32, 131, 81, 236, 52, 210>>, <<21, 104, 230, 119, 20, 10, 184, 52>>,
       <<167, 196, 246, 200, 42, 181, 237, 115>>, <<163, 9, 82, 19, 253, 181, 208, 191>>,
       <<134, 61, 50, 16, 123, 19, 63, 215>>, <<13, 62, 165, 187, 29, 87, 30, 59>>,
       <<239, 135, 208, 109, 39, 172, 71, 239>>, <<104, 78, 32, 229, 173, 223, 12, 113>>,
       <<194, 110, 166, 40, 220, 184, 129, 113>>, <<237, 105, 235, 48, 159, 168, 126, 253>>,
       <<127, 253, 106, 93, 112, 113, 183, 83>>, <<148, 191, 215, 184, 63, 37, 109, 219>>,
       <<21, 43, 195, 22, 142, 110, 222, 80>>, <<96, 12, 202, 13, 168, 101, 141, 251>>,
       <<70, 184, 123, 244, 20, 218, 203, 71>>, <<128, 26, 130, 68, 192, 86, 22, 239>>,
       <<169, 19, 222, 153, 152, 18, 161, 127>>, <<105, 253, 27, 160, 24, 146, 142, 16>>,
       <<186, 232, 175, 61, 96, 22, 71, 15>>, <<4, 57, 222, 78, 108, 186, 92, 238>>,
       <<177, 10, 116, 249, 177, 0, 171, 12>>, <<10, 80, 237, 140, 58, 178, 170, 105>>,
       <<62, 102, 125, 105, 173, 179, 129, 112>>, <<103, 18, 20, 193, 129, 80, 86, 66>>,
       <<135, 139, 210, 132, 93, 253, 55, 207>>, <<195, 109, 163, 47, 135, 219, 178, 115>>,
       <<21, 143, 21, 248, 205, 219, 24, 26>>, <<50, 2, 145, 204, 33, 82, 157, 250>>,
       <<149, 145, 124, 246, 184, 64, 105, 159>>, <<139, 183, 123, 76, 214, 158, 219, 133>>,
       <<113, 53, 105, 117, 208, 23, 191, 52>>, <<71, 192, 194, 96, 60, 181, 149, 42>>,
       <<122, 218, 213, 49, 235, 21, 184, 84>>, <<68, 23, 163, 13, 200, 198, 181, 63>>,
       <<143, 127, 66, 119, 74, 115, 217, 202>>, <<178, 0, 55, 92, 155, 96, 115, 127>>,
       <<164, 133, 54, 19, 178, 163, 133, 104>>, <<70, 7, 13, 75, 249, 52, 251, 13>>,
       <<47, 69, 37, 181, 208, 131, 122, 106>>, <<24, 186, 215, 143, 2, 123, 189, 155>>,
       <<134, 39, 100, 205, 236, 41, 7, 200>>, <<38, 225, 159, 43, 77, 217, 58, 58>>,
       <<163, 65, 196, 51, 166, 178, 80, 169>>, <<107, 8, 77, 136, 162, 232, 202, 36>>,
       <<57, 200, 143, 188, 23, 170, 96, 242>>, <<134, 198, 84, 143, 153, 102, 247, 175>>,
       <<197, 68, 45, 167, 157, 219, 28, 59>>, <<124, 160, 23, 40, 80, 197, 48, 101>>,
       <<60, 226, 102, 30, 39, 25, 73, 69>>, <<72, 6, 79, 12, 54, 130, 134, 75>>,
       <<219, 29, 111, 58, 77, 47, 148, 43>>, <<89, 131, 14, 188, 58, 65, 132, 17>>,
       <<130, 46, 84, 211, 125, 211, 125, 131>>, <<121, 169, 207, 32, 135, 211, 140, 81>>,
       <<190, 234, 164, 46, 245, 21, 104, 247>>, <<237, 55, 237, 19, 185, 232, 75, 170>>,
       <<137, 152, 38, 201, 196, 111, 37, 252>>, <<40, 245, 85, 135, 177, 228, 44, 241>>,
       <<252, 37, 180, 50, 33, 42, 251, 197>>, <<134, 216, 73, 18, 5, 60, 94, 118>>,
       <<3, 159, 244, 131, 202, 196, 118, 24>>, <<102, 226, 197, 229, 199, 227, 152, 144>>,
       <<75, 241, 90, 114, 229, 160, 174, 118>>, <<176, 93, 6, 219, 6, 21, 118, 22>>,
       <<193, 16, 103, 99, 90, 200, 19, 233>>, <<27, 193, 62, 40, 52, 224, 14, 198>>,
       <<48, 109, 47, 222, 74, 153, 65, 151>>, <<131, 253, 117, 7, 157, 139, 83, 34>>,
       <<237, 188, 55, 236, 66, 19, 122, 249>>, <<229, 127, 122, 248, 123, 225, 20, 6>>,
       <<123, 110, 250, 141, 58, 207, 162, 192>>, <<213, 213, 35, 147, 60, 29, 161, 145>>,
       <<129, 161, 41, 141, 0, 212, 182, 55>>, <<226, 214, 118, 17, 164, 80, 148, 27>>,
       <<123, 251, 136, 25, 160, 210, 253, 103>>, <<136, 155, 29, 12, 237, 72, 191, 254>>,
       <<227, 54, 6, 68, 222, 162, 200, 98>>, <<63, 165, 191, 249, 209, 177, 32, 174>>,
       <<23, 94, 233, 154, 123, 191, 101, 118>>, <<69, 232, 41, 100, 54, 105, 20, 180>>,
       <<255, 98, 147, 209, 199, 249, 146, 125>>, <<159, 129, 137, 178, 17, 103, 247, 89>>,
       <<19, 110, 242, 138, 82, 230, 2, 139>>, <<217, 66, 186, 89, 102, 241, 236, 191>>,
       <<215, 235, 128, 89, 54, 91, 61, 30>>, <<166, 4, 114, 202, 225, 86, 81, 71>>,
       <<12, 196, 214, 161, 105, 106, 179, 170>>, <<15, 146, 211, 38, 218, 220, 50, 132>>,
       <<144, 118, 112, 48, 47, 183, 246, 221>>, <<18, 124, 210, 250, 89, 88, 120, 186>>,
       <<219, 193, 235, 159, 35, 5, 203, 2>>, <<49, 100, 85, 120, 114, 30, 242, 28>>,
       <<17, 252, 95, 77, 7, 155, 216, 89>>, <<205, 203, 111, 149, 219, 181, 0, 90>>,
       <<104, 220, 126, 23, 173, 138, 110, 164>>, <<201, 62, 130, 228, 220, 84, 90, 39>>,
       <<84, 246, 237, 129, 254, 82, 237, 77>>, <<12, 253, 164, 88, 76, 237, 47, 61>>,
       <<179, 223, 216, 105, 55, 87, 59, 30>>, <<94, 164, 230, 209, 201, 168, 163, 66>>,
       <<32, 4, 238, 188, 79, 134, 152, 237>>, <<196, 209, 154, 87, 132, 78, 98, 118>>,
       <<10, 113, 132, 193, 185, 236, 212, 199>>, <<123, 66, 0, 184, 85, 168, 211, 101>>,
       <<202, 47, 81, 199, 88, 95, 150, 63>>, <<47, 105, 193, 171, 41, 208, 84, 109>>,
       <<131, 111, 17, 43, 15, 247, 222, 43>>, <<246, 211, 121, 128, 71, 64, 92, 43>>,
       <<184, 231, 123, 242, 246, 137, 103, 21>>, <<145, 94, 188, 122, 193, 101, 211, 180>>,
       <<73, 114, 4, 12, 39, 39, 144, 195>>, <<88, 231, 71, 230, 235, 215, 206, 119>>,
       <<20, 15, 59, 185, 178, 49, 230, 14>>, <<197, 95, 170, 117, 102, 45, 118, 219>>,
       <<221, 97, 131, 225, 147, 152, 108, 19>>, <<156, 183, 60, 32, 17, 51, 247, 121>>,
       <<147, 145, 105, 66, 131, 62, 87, 255>>, <<4, 33, 198, 61, 40, 15, 239, 18>>,
       <<130, 118, 110, 233, 79, 30, 41, 249>>, <<30, 148, 82, 13, 84, 173, 31, 37>>,
       <<30, 44, 185, 240, 108, 228, 44, 101>>, <<186, 123, 176, 46, 146, 54, 212, 187>>,
       <<54, 165, 48, 169, 251, 25, 203, 18>>, <<33, 0, 24, 100, 105, 11, 219, 40>>,
       <<52, 199, 135, 144, 209, 157, 8, 235>>, <<38, 21, 251, 154, 14, 177, 68, 56>>,
       <<105, 235, 12, 106, 59, 170, 241, 166>>, <<239, 68, 11, 195, 56, 202, 212, 109>>,
       <<84, 95, 130, 123, 228, 197, 192, 187>>, <<167, 218, 82, 159, 131, 158, 46, 128>>,
       <<16, 183, 105, 13, 214, 127, 212, 107>>, <<94, 220, 138, 69, 83, 245, 53, 126>>,
       <<191, 212, 237, 146, 72, 12, 246, 17>>, <<58, 162, 229, 5, 195, 60, 35, 207>>,
       <<89, 123, 219, 141, 24, 4, 205, 153>>, <<15, 109, 78, 86, 54, 197, 87, 32>>,
       <<255, 38, 5, 15, 97, 147, 203, 143>>, <<3, 24, 214, 123, 93, 74, 28, 102>>,
       <<105, 184, 76, 178, 63, 234, 53, 129>>, <<48, 55, 204, 12, 87, 208, 41, 95>>,
       <<158, 238, 243, 114, 174, 54, 150, 83>>, <<8, 251, 117, 24, 132, 114, 88, 101>>,
       <<253, 250, 204, 68, 110, 252, 39, 117>>, <<46, 152, 10, 203, 234, 162, 91, 15>>,
       <<161, 224, 68, 50, 242, 45, 146, 11>>, <<87, 132, 4, 60, 148, 208, 138, 242>>,
       <<163, 67, 87, 122, 143, 221, 161, 217>>, <<239, 165, 218, 239, 239, 43, 180, 147>>,
       <<23, 30, 31, 20, 254, 104, 41, 39>>, <<121, 36, 214, 65, 169, 205, 107, 223>>,
       <<222, 220, 205, 236, 32, 69, 194, 211>>, <<5, 21, 53, 238, 209, 19, 37, 218>>,
       <<23, 79, 236, 154, 46, 216, 1, 236>>, <<42, 86, 18, 156, 214, 41, 58, 181>>,
       <<193, 34, 65, 101, 147, 6, 143, 39>>, <<179, 22, 65, 235, 164, 12, 151, 26>>,
       <<209, 168, 121, 82, 138, 207, 173, 89>>, <<76, 156, 96, 218, 33, 248, 81, 127>>,
       <<116, 174, 31, 96, 126, 179, 165, 196>>, <<27, 148, 227, 113, 16, 217, 44, 4>>,
       <<15, 248, 41, 174, 152, 231, 165, 244>>, <<13, 230, 139, 92, 131, 95, 9, 187>>,
       <<30, 164, 107, 190, 137, 91, 150, 29>>, <<93, 75, 101, 234, 11, 136, 74, 184>>,
       <<38, 219, 154, 112, 106, 203, 146, 4>>, <<116, 85, 100, 225, 244, 46, 229, 63>>,
       <<175, 124, 145, 133, 135, 155, 193, 236>>, <<57, 82, 61, 50, 4, 156, 232, 137>>,
       <<155, 2, 241, 121, 226, 249, 10, 186>>, <<28, 174, 158, 171, 18, 221, 247, 254>>,
       <<118, 46, 81, 23, 144, 100, 105, 40>>, <<23, 12, 215, 78, 27, 2, 202, 253>>,
       <<88, 49, 89, 11, 41, 167, 196, 126>>, <<57, 3, 188, 104, 88, 40, 23, 13>>,
       <<202, 121, 146, 130, 170, 45, 243, 89>>, <<148, 18, 28, 155, 67, 244, 186, 195>>,
       <<164, 4, 36, 86, 85, 189, 101, 195>>, <<100, 43, 240, 227, 64, 56, 6, 82>>,
       <<98, 70, 178, 13, 71, 66, 235, 239>>, <<235, 126, 206, 228, 254, 23, 29, 194>>,
       <<171, 204, 65, 12, 59, 122, 73, 223>>, <<234, 69, 20, 181, 0, 64, 164, 58>>,
       <<64, 114, 126, 134, 26, 145, 130, 16>>, <<46, 225, 38, 254, 69, 148, 244, 179>>,
       <<206, 126, 124, 125, 214, 129, 239, 6>>, <<200, 240, 243, 43, 204, 95, 8, 108>>,
       <<180, 57, 226, 231, 246, 239, 67, 98>>, <<24, 153, 66, 194, 156, 78, 150, 65>>,
       <<50, 214, 23, 62, 70, 106, 225, 187>>, <<104, 84, 207, 87, 94, 141, 136, 101>>,
       <<109, 98, 98, 191, 3, 12, 119, 7>>, <<125, 109, 12, 186, 239, 251, 6, 163>> >>

\* sha256("hello" ++ nonce)[0:8]
DigestsHello ==
    << <<243, 174, 254, 98, 150, 90, 145, 144>>, <<145, 222, 236, 124, 2, 231, 11, 56>>,
       <<13, 209, 213, 59, 18, 236, 198, 72>>, <<56, 167, 108, 216, 11, 25, 126, 96>>,
       <<125, 231, 241, 178, 206, 233, 68, 111>>, <<148, 59, 217, 141, 253, 144, 218, 191>>,
       <<122, 91, 154, 227, 237, 166, 115, 31>>, <<171, 194, 43, 105, 220, 189, 91, 57>>,
       <<43, 237, 157, 221, 180, 21, 34, 193>>, <<71, 36, 44, 248, 203, 246, 181, 125>>,
       <<88, 145, 181, 181, 34, 213, 223, 8>>, <<206, 83, 8, 8, 5, 103, 126, 236>>,
       <<181, 76, 196, 87, 5, 171, 50, 166>>, <<100, 203, 162, 167, 17, 151, 75, 18>>,
       <<224, 153, 85, 127, 149, 243, 95, 72>>, <<47, 18, 11, 111, 52, 53, 204, 239>>,
       <<7, 26, 9, 55, 153, 177, 229, 159>>, <<37, 41, 180, 24, 203, 236, 41, 148>>,
       <<5, 25, 116, 232, 51, 51, 76, 130>>, <<231, 237, 225, 108, 245, 171, 91, 3>>,
       <<248, 128, 169, 200, 123, 177, 178, 39>>, <<232, 212, 126, 86, 136, 195, 113, 198>>,
       <<32, 209, 59, 141, 252, 207, 215, 139>>, <<201, 212, 61, 21, 89, 86, 253, 212>>,
       <<184, 215, 90, 111, 35, 23, 94, 48>>, <<8, 92, 113, 143, 29, 5, 222, 164>>,
       <<119, 223, 75, 88, 32, 76, 244, 177>>, <<192, 164, 145, 96, 172, 28, 226, 5>>,
       <<136, 167, 175, 44, 34, 218, 131, 218>>, <<57, 10, 199, 13, 119, 106, 201, 118>>,
       <<118, 41, 246, 39, 194, 166, 149, 129>>, <<89, 240, 178, 177, 145, 27, 128, 34>>,
       <<94, 50, 53, 168, 52, 110, 90, 69>>, <<206, 6, 9, 47, 185, 72, 217, 255>>,
       <<141, 208, 117, 38, 168, 218, 204, 239>>, <<47, 67, 146, 95, 131, 255, 223, 157>>,
       <<249, 168, 17, 166, 80, 233, 1, 56>>, <<62, 130, 32, 29, 231, 178, 59, 38>>,
       <<252, 221, 77, 234, 108, 133, 52, 21>>, <<220, 130, 163, 70, 61, 142, 17, 159>>,
       <<11, 45, 181, 153, 124, 83, 148, 70>>, <<87, 147, 129, 255, 58, 193, 11, 230>>,
       <<118, 172, 42, 115, 146, 233, 111, 39>>, <<57, 36, 31, 145, 124, 73, 183, 197>>,
       <<61, 22, 44, 177, 126, 111, 254, 141>>, <<175, 174, 23, 174, 120, 245, 252, 186>>,
       <<21, 137, 153, 155, 12, 166, 239, 136>>, <<178, 243, 97, 177, 56, 95, 208, 107>>,
       <<90, 147, 110, 225, 154, 12, 243, 199>>, <<145, 233, 36, 15, 65, 82, 35, 152>>,
       <<135, 41, 140, 194, 243, 31, 186, 115>>, <<71, 234, 112, 207, 8, 135, 43, 219>>,
       <<227, 97, 165, 122, 116, 6, 173, 238>>, <<141, 254, 130, 217, 167, 42, 216, 49>>,
       <<25, 99, 115, 49, 8, 39, 102, 156>>, <<93, 157, 173, 22, 112, 147, 114, 32>>,
       <<189, 76, 108, 102, 90, 27, 139, 71>>, <<78, 116, 81, 47, 29, 142, 80, 22>>,
       <<71, 205, 120, 171, 95, 152, 72, 82>>, <<122, 129, 209, 185, 76, 114, 22, 50>>,
       <<70, 104, 128, 188, 174, 112, 242, 250>>, <<76, 134, 107, 236, 68, 170, 223, 95>>,
       <<19, 231, 149, 184, 172, 128, 198, 103>>, <<180, 92, 246, 70, 105, 242, 248, 218>>,
       <<64, 252, 226, 229, 252, 4, 123, 220>>, <<16, 93, 107, 41, 125, 23, 251, 3>>,
       <<195, 168, 72, 196, 121, 100, 182, 140>>, <<140, 81, 211, 25, 59, 211, 86, 72>>,
       <<45, 149, 55, 242, 3, 39, 172, 121>>, <<11, 148, 26, 155, 1, 111, 122, 237>>,
       <<240, 108, 177, 167, 15, 95, 31, 74>>, <<174, 232, 70, 185, 24, 66, 48, 244>>,
       <<117, 84, 245, 210, 79, 194, 36, 104>>, <<90, 165, 162, 172, 227, 156, 57, 191>>,
       <<24, 222, 144, 79, 119, 170, 168, 24>>, <<104, 150, 242, 207, 211, 23, 110, 229>>,
       <<242, 76, 93, 200, 29, 203, 154, 29>>, <<50, 212, 224, 95, 219, 94, 7, 53>>,
       <<199, 67, 234, 10, 142, 212, 2, 29>>, <<100, 54, 112, 113, 93, 173, 63, 233>>,
       <<13, 38, 154, 11, 69, 70, 191, 40>>, <<8, 53, 13, 249, 226, 168, 241, 75>>,
       <<173, 90, 8, 238, 54, 255, 140, 91>>, <<162, 150, 161, 177, 12, 15, 189, 40>>,
       <<237, 230, 168, 30, 220, 26, 84, 153>>, <<132, 47, 235, 43, 120, 220, 108, 65>>,
       <<94, 205, 193, 151, 212, 12, 249, 160>>, <<145, 36, 56, 158, 236, 77, 167, 116>>,
       <<204, 249, 25, 246, 241, 6, 237, 30>>, <<41, 254, 251, 78, 9, 180, 7, 185>>,
       <<37, 85, 234, 42, 152, 156, 206, 220>>, <<91, 170, 114, 55, 209, 133, 117, 203>>,
       <<99, 120, 201, 24, 233, 246, 152, 150>>, <<207, 74, 70, 196, 138, 8, 133, 189>>,
       <<30, 219, 31, 163, 165, 193, 143, 54>>, <<121, 222, 45, 49, 242, 10, 2, 233>>,
       <<176, 208, 217, 68, 64, 53, 180, 29>>, <<154, 191, 231, 125, 94, 177, 47, 74>>,
       <<76, 135, 77, 47, 8, 196, 66, 19>>, <<191, 152, 158, 78, 199, 145, 107, 134>>,
       <<75, 113, 250, 204, 7, 129, 81, 186>>, <<178, 171, 149, 90, 45, 11, 10, 4>>,
       <<122, 191, 60, 26, 144, 158, 225, 199>>, <<17, 148, 211, 24, 145, 118, 127, 113>>,
       <<128, 113, 114, 203, 39, 255, 250, 41>>, <<56, 6, 23, 59, 224, 96, 115, 77>>,
       <<183, 149, 25, 134, 195, 210, 219, 208>>, <<212, 19, 89, 149, 153, 193, 126, 92>>,
       <<206, 90, 189, 29, 107, 236, 126, 43>>, <<150, 4, 224, 107, 174, 201, 184, 65>>,
       <<31, 26, 168, 167, 73, 154, 234, 225>>, <<224, 203, 5, 217, 143, 197, 243, 130>>,
       <<160, 70, 129, 149, 254, 39, 121, 253>>, <<208, 162, 135, 194, 157, 219, 102, 115>>,
       <<233, 161, 79, 127, 35, 35, 203, 73>>, <<142, 189, 173, 204, 21, 157, 141, 100>>,
       <<89, 89, 55, 8, 9, 140, 75, 216>>, <<142, 176, 141, 128, 158, 154, 218, 52>>,
       <<139, 167, 143, 65, 147, 239, 242, 244>>, <<208, 188, 56, 25, 82, 208, 130, 127>>,
       <<26, 107, 186, 67, 31, 185, 52, 126>>, <<104, 80, 176, 246, 127, 80, 173, 231>>,
       <<12, 223, 108, 236, 135, 37, 207, 78>>, <<67, 230, 139, 136, 184, 93, 232, 142>>,
       <<236, 222, 116, 229, 236, 40, 243, 31>>, <<142, 49, 8, 167, 127, 240, 83, 105>>,
       <<231, 103, 96, 155, 136, 146, 24, 78>>, <<93, 173, 192, 225, 57, 78, 129, 23>>,
       <<139, 105, 234, 0, 216, 250, 212, 137>>, <<162, 143, 237, 4, 246, 196, 90, 100>>,
       <<75, 199, 85, 90, 30, 120, 113, 90>>, <<103, 162, 189, 0, 101, 69, 162, 148>>,
       <<104, 253, 205, 150, 83, 68, 98, 36>>, <<80, 254, 1, 229, 189, 35, 20, 217>>,
       <<36, 98, 8, 161, 107, 185, 220, 101>>, <<36, 208, 137, 242, 43, 253, 28, 44>>,
       <<184, 255, 207, 53, 101, 73, 61, 73>>, <<177, 96, 14, 184, 6, 70, 136, 119>>,
       <<213, 158, 18, 54, 127, 185, 137, 25>>, <<55, 69, 87, 36, 11, 157, 184, 90>>,
       <<124, 67, 111, 76, 165, 100, 194, 18>>, <<244, 127, 143, 168, 53, 195, 14, 3>>,
       <<191, 188, 80, 3, 44, 254, 170, 164>>, <<114, 120, 217, 55, 143, 169, 223, 77>>,
       <<72, 159, 128, 180, 126, 38, 89, 106>>, <<127, 15, 235, 130, 100, 116, 178, 150>>,
       <<46, 12, 160, 238, 148, 147, 225, 31>>, <<58, 91, 174, 51, 89, 105, 28, 79>>,
       <<165, 127, 61, 253, 69, 169, 112, 182>>, <<108, 147, 178, 149, 32, 22, 115, 38>>,
       <<173, 14, 90, 94, 170, 158, 151, 71>>, <<78, 107, 149, 41, 47, 208, 203, 35>>,
       <<96, 187, 228, 199, 184, 108, 18, 155>>, <<220, 221, 177, 212, 180, 86, 144, 235>>,
       <<67, 161, 38, 29, 197, 165, 32, 0>>, <<194, 27, 243, 185, 231, 185, 216, 83>>,
       <<52, 210, 0, 134, 224, 25, 38, 21>>, <<214, 80, 219, 45, 127, 50, 155, 193>>,
       <<63, 245, 44, 157, 255, 194, 72, 205>>, <<145, 61, 183, 35, 132, 224, 17, 189>>,
       <<161, 82, 230, 160, 175, 45, 109, 124>>, <<17, 205, 55, 25, 227, 125, 233, 113>>,
       <<29, 82, 4, 224, 96, 35, 130, 106>>, <<30, 14, 74, 244, 228, 56, 250, 14>>,
       <<168, 11, 95, 137, 133, 87, 255, 189>>, <<199, 227, 1, 141, 151, 86, 74, 80>>,
       <<144, 3, 59, 202, 248, 154, 189, 177>>, <<23, 70, 147, 182, 48, 245, 106, 112>>,
       <<173, 43, 241, 81, 24, 27, 204, 185>>, <<198, 154, 33, 120, 92, 232, 122, 211>>,
       <<45, 253, 100, 108, 55, 237, 12, 67>>, <<156, 232, 240, 208, 75, 252, 142, 6>>,
       <<38, 129, 200, 34, 58, 238, 92, 155>>, <<74, 99, 19, 22, 94, 224, 142, 112>>,
       <<195, 137, 97, 212, 59, 87, 128, 5>>, <<224, 147, 65, 8, 238, 128, 69, 64>>,
       <<56, 39, 74, 154, 146, 217, 63, 252>>, <<148, 36, 59, 53, 194, 98, 150, 185>>,
       <<125, 20, 82, 180, 9, 114, 165, 99>>, <<40, 114, 146, 64, 8, 192, 50, 137>>,
       <<114, 154, 142, 203, 72, 217, 164, 196>>, <<119, 190, 253, 122, 153, 251, 83, 84>>,
       <<33, 72, 29, 56, 29, 148, 71, 138>>, <<53, 75, 176, 181, 106, 97, 202, 224>>,
       <<105, 118, 198, 148, 251, 233, 107, 73>>, <<84, 117, 165, 121, 226, 236, 97, 144>>,
       <<195, 176, 165, 174, 82, 7, 54, 80>>, <<64, 164, 156, 62, 196, 184, 59, 210>>,
       <<41, 126, 199, 20, 40, 74, 225, 113>>, <<234, 226, 208, 102, 207, 120, 92, 54>>,
       <<233, 25, 138, 149, 87, 147, 253, 38>>, <<133, 130, 83, 213, 140, 103, 81, 37>>,
       <<170, 169, 13, 164, 31, 7, 250, 101>>, <<82, 101, 237, 114, 199, 103, 117, 141>>,
       <<66, 252, 149, 115, 98, 223, 54, 209>>, <<98, 239, 46, 172, 42, 36, 218, 107>>,
       <<91, 51, 48, 172, 137, 62, 79, 54>>, <<110, 184, 141, 142, 188, 177, 76, 30>>,
       <<117, 5, 204, 184, 208, 70, 141, 157>>, <<13, 139, 1, 159, 197, 82, 157, 59>>,
       <<203, 72, 169, 154, 114, 131, 50, 191>>, <<172, 122, 144, 110, 171, 45, 134, 155>>,
       <<90, 48, 8, 122, 178, 178, 79, 240>>, <<125, 17, 114, 161, 197, 148, 66, 29>>,
       <<13, 137, 142, 231, 169, 217, 23, 211>>, <<73, 254, 240, 36, 42, 44, 75, 164>>,
       <<133, 81, 56, 50, 240, 47, 228, 94>>, <<145, 0, 167, 209, 207, 152, 248, 203>>,
       <<40, 15, 238, 139, 3, 224, 207, 177>>, <<123, 147, 107, 180, 43, 43, 221, 19>>,
       <<70, 225, 168, 163, 30, 103, 117, 238>>, <<2, 130, 163, 97, 239, 75, 21, 98>>,
       <<147, 34, 244, 53, 158, 20, 81, 57>>, <<60, 137, 70, 135, 233, 8, 93, 185>>,
       <<109, 214, 216, 94, 26, 147, 201, 60>>, <<86, 240, 77, 128, 16, 37, 230, 250>>,
       <<36, 206, 196, 103, 228, 73, 66, 248>>, <<194, 192, 204, 33, 140, 0, 212, 3>>,
       <<177, 209, 121, 96, 158, 171, 111, 36>>, <<204, 227, 84, 37, 148, 130, 37, 153>>,
       <<207, 144, 114, 13, 234, 33, 51, 197>>, <<51, 89, 183, 92, 65, 6, 31, 2>>,
       <<152, 129, 203, 73, 138, 58, 65, 79>>, <<156, 94, 37, 190, 223, 17, 179, 47>>,
       <<233, 123, 62, 167, 190, 189, 176, 210>>, <<99, 193, 174, 46, 9, 14, 54, 210>>,
       <<100, 145, 149, 185, 221, 117, 5, 221>>, <<182, 127, 15, 235, 81, 160, 117, 44>>,
       <<185, 124, 57, 35, 179, 206, 189, 127>>, <<195, 236, 62, 42, 112, 167, 71, 156>>,
       <<39, 62, 16, 36, 124, 222, 203, 141>>, <<33, 145, 191, 50, 40, 19, 174, 139>>,
       <<107, 94, 8, 109, 26, 94, 246, 23>>, <<10, 19, 204, 3, 57, 59, 44, 239>>,
       <<3, 214, 101, 25, 181, 240, 39, 150>>, <<176, 60, 31, 115, 100, 118, 85, 82>>,
       <<73, 219, 217, 67, 241, 55, 125, 133>>, <<160, 150, 198, 240, 58, 39, 196, 73>>,
       <<182, 61, 185, 9, 152, 179, 41, 108>>, <<206, 173, 222, 137, 208, 57, 83, 69>>,
       <<245, 144, 35, 122, 97, 144, 22, 141>>, <<127, 27, 211, 64, 180, 8, 110, 113>>,
       <<0, 239, 73, 76, 63, 222, 149, 115>>, <<3, 53, 200, 105, 48, 75, 198, 16>>,
       <<201, 139, 115, 56, 177, 157, 164, 220>>, <<236, 65, 7, 76, 160, 99, 177, 39>>,
       <<20, 196, 30, 36, 47, 141, 49, 163>>, <<171, 216, 198, 246, 227, 9, 147, 55>>,
       <<142, 97, 76, 181, 235, 124, 66, 217>>, <<160, 48, 30, 106, 65, 210, 15, 163>>,
       <<118, 37, 173, 31, 124, 82, 201, 221>>, <<120, 5, 162, 163, 58, 183, 106, 67>>,
       <<106, 244, 38, 186, 99, 95, 204, 90>>, <<161, 253, 226, 97, 18, 22, 215, 12>>,
       <<236, 81, 152, 173, 4, 178, 180, 138>>, <<252, 254, 69, 9, 97, 198, 109, 195>> >>

\* sha256("not-exists1" ++ nonce)[0:8]
DigestsNotExists1 ==
    << <<153, 121, 124, 109, 76, 91, 253, 208>>, <<244, 140, 191, 53, 213, 13, 35, 220>>,
       <<252, 119, 203, 77, 169, 94, 83, 68>>, <<66, 22, 62, 160, 35, 81, 26, 175>>,
       <<33, 156, 228, 17, 19, 68, 217, 143>>, <<25, 168, 95, 195, 62, 243, 10, 107>>,
       <<27, 178, 251, 126, 183, 216, 52, 32>>, <<172, 171, 72, 153, 204, 169, 144, 214>>,
       <<85, 100, 212, 100, 23, 152, 117, 116>>, <<136, 85, 242, 214, 10, 70, 185, 115>>,
       <<50, 235, 86, 132, 158, 165, 93, 161>>, <<55, 130, 149, 207, 56, 194, 23, 154>>,
       <<118, 10, 35, 3, 75, 222, 10, 187>>, <<36, 85, 195, 170, 139, 187, 202, 215>>,
       <<220, 194, 234, 81, 127, 21, 34, 169>>, <<68, 119, 12, 45, 95, 93, 12, 154>>,
       <<182, 168, 121, 35, 75, 116, 175, 248>>, <<214, 194, 37, 35, 173, 166, 41, 7>>,
       <<123, 130, 206, 242, 11, 50, 210, 70>>, <<154, 142, 63, 123, 81, 67, 6, 98>>,
       <<110, 89, 202, 151, 184, 169, 4, 63>>, <<212, 191, 226, 215, 21, 137, 103, 179>>,
       <<159, 107, 66, 66, 87, 166, 20, 60>>, <<138, 0, 190, 197, 127, 57, 144, 13>>,
       <<56, 212, 118, 151, 81, 248, 218, 202>>, <<11, 149, 226, 252, 218, 182, 246, 57>>,
       <<187, 166, 215, 33, 52, 145, 175, 65>>, <<251, 251, 228, 99, 2, 143, 226, 238>>,
       <<148, 124, 35, 5, 112, 32, 0, 51>>, <<142, 1, 160, 233, 45, 155, 48, 131>>,
       <<33, 156, 70, 42, 65, 31, 247, 30>>, <<216, 28, 13, 36, 90, 186, 135, 158>>,
       <<169, 84, 129, 182, 216, 231, 8, 125>>, <<107, 196, 219, 198, 80, 158, 161, 177>>,
       <<101, 171, 69, 241, 205, 168, 171, 84>>, <<231, 129, 32, 22, 109, 243, 108, 55>>,
       <<40, 159, 172, 246, 155, 204, 167, 23>>, <<188, 241, 114, 10, 67, 249, 122, 1>>,
       <<84, 197, 97, 42, 13, 91, 3, 253>>, <<178, 65, 135, 181, 37, 111, 45, 115>>,
       <<215, 220, 188, 123, 114, 210, 164, 122>>, <<164, 249, 10, 242, 94, 53, 121, 168>>,
       <<197, 47, 242, 186, 157, 134, 43, 203>>, <<126, 58, 4, 198, 14, 66, 176, 233>>,
       <<73, 223, 253, 241, 114, 150, 22, 154>>, <<189, 206, 54, 13, 7, 105, 23, 214>>,
       <<56, 222, 80, 4, 205, 250, 236, 45>>, <<185, 124, 106, 66, 75, 177, 45, 26>>,
       <<89, 88, 140, 130, 208, 52, 164, 44>>, <<84, 148, 153, 222, 141, 176, 161, 199>>,
       <<71, 119, 7, 37, 92, 208, 161, 155>>, <<151, 31, 131, 31, 178, 105, 2, 202>>,
       <<229, 171, 230, 198, 103, 82, 156, 167>>, <<131, 3, 78, 53, 215, 255, 202, 68>>,
       <<177, 13, 176, 162, 128, 72, 43, 158>>, <<55, 87, 33, 251, 107, 99, 126, 250>>,
       <<127, 107, 200, 153, 27, 109, 254, 31>>, <<249, 223, 50, 131, 33, 102, 80, 172>>,
       <<197, 155, 138, 130, 179, 38, 67, 167>>, <<35, 136, 210, 188, 239, 243, 229, 32>>,
       <<31, 61, 159, 187, 214, 255, 225, 134>>, <<58, 177, 124, 49, 163, 5, 98, 127>>,
       <<134, 221, 212, 53, 127, 92, 55, 107>>, <<76, 212, 64, 190, 148, 148, 184, 86>>,
       <<215, 243, 98, 202, 102, 73, 34, 208>>, <<175, 34, 194, 72, 29, 231, 122, 215>>,
       <<136, 220, 243, 100, 211, 241, 218, 73>>, <<52, 36, 166, 71, 221, 154, 225, 89>>,
       <<232, 171, 229, 107, 248, 35, 5, 59>>, <<181, 23, 4, 83, 158, 41, 139, 37>>,
       <<98, 185, 130, 178, 35, 107, 95, 226>>, <<127, 191, 237, 30, 218, 149, 123, 186>>,
       <<216, 195, 183, 241, 161, 109, 85, 135>>, <<183, 77, 241, 180, 48, 62, 108, 235>>,
       <<148, 232, 39, 246, 149, 122, 206, 111>>, <<189, 195, 178, 235, 82, 94, 42, 111>>,
       <<76, 60, 249, 225, 90, 68, 194, 216>>, <<122, 182, 145, 50, 32, 63, 34, 114>>,
       <<219, 134, 237, 89, 3, 31, 75, 192>>, <<110, 97, 176, 163, 142, 35, 143, 152>>,
       <<12, 110, 93, 196, 188, 102, 211, 17>>, <<76, 222, 17, 216, 131, 76, 206, 131>>,
       <<225, 215, 229, 242, 233, 231, 9, 96>>, <<162, 205, 228, 43, 11, 209, 141, 33>>,
       <<144, 222, 233, 11, 231, 91, 35, 105>>, <<73, 19, 107, 81, 223, 113, 53, 182>>,
       <<210, 87, 168, 212, 101, 33, 236, 195>>, <<204, 232, 211, 22, 72, 79, 90, 4>>,
       <<232, 113, 201, 52, 185, 101, 210, 8>>, <<215, 34, 150, 161, 180, 8, 0, 163>>,
       <<242, 122, 0, 208, 197, 236, 28, 8>>, <<148, 10, 80, 90, 254, 248, 138, 65>>,
       <<121, 141, 42, 186, 8, 195, 96, 159>>, <<216, 87, 229, 212, 8, 91, 230, 225>>,
       <<59, 56, 30, 229, 109, 31, 221, 235>>, <<247, 4, 161, 55, 2, 41, 62, 4>>,
       <<81, 248, 177, 86, 66, 23, 175, 20>>, <<188, 139, 3, 56, 105, 113, 197, 156>>,
       <<242, 35, 14, 151, 112, 15, 79, 30>>, <<195, 44, 129, 38, 227, 142, 154, 23>>,
       <<155, 72, 39, 221, 29, 186, 63, 170>>, <<69, 247, 126, 4, 46, 12, 83, 212>>,
       <<95, 229, 117, 175, 88, 196, 73, 109>>, <<180, 109, 198, 31, 26, 106, 143, 67>>,
       <<185, 31, 203, 85, 99, 110, 60, 124>>, <<112, 34, 98, 126, 220, 104, 162, 249>>,
       <<158, 134, 137, 236, 94, 61, 60, 208>>, <<118, 52, 33, 182, 209, 31, 125, 101>>,
       <<76, 223, 161, 166, 149, 252, 11, 106>>, <<168, 143, 31, 205, 155, 197, 167, 114>>,
       <<66, 60, 211, 37, 193, 192, 240, 49>>, <<222, 70, 50, 84, 16, 11, 227, 254>>,
       <<29, 131, 139, 239, 112, 163, 100, 176>>, <<160, 36, 13, 83, 133, 164, 246, 147>>,
       <<192, 138, 20, 154, 249, 95, 235, 139>>, <<148, 250, 73, 113, 163, 131, 175, 165>>,
       <<166, 96, 163, 205, 72, 212, 131, 189>>, <<164, 6, 191, 77, 164, 253, 134, 61>>,
       <<45, 168, 129, 199, 220, 209, 33, 24>>, <<137, 146, 194, 59, 77, 97, 142, 237>>,
       <<66, 44, 113, 157, 58, 234, 37, 134>>, <<15, 25, 3, 94, 223, 218, 8, 120>>,
       <<214, 66, 138, 131, 154, 30, 193, 217>>, <<10, 242, 220, 102, 241, 102, 144, 145>>,
       <<218, 68, 14, 145, 189, 73, 36, 25>>, <<0, 252, 174, 170, 20, 219, 119, 88>>,
       <<153, 153, 0, 28, 253, 157, 10, 176>>, <<138, 212, 70, 128, 172, 53, 9, 214>>,
       <<6, 213, 214, 246, 239, 214, 131, 12>>, <<48, 113, 9, 180, 176, 100, 135, 143>>,
       <<106, 166, 79, 52, 66, 9, 67, 80>>, <<238, 161, 93, 84, 4, 255, 24, 39>>,
       <<62, 62, 109, 148, 183, 99, 14, 118>>, <<107, 199, 138, 224, 125, 211, 196, 27>>,
       <<86, 128, 223, 118, 249, 165, 122, 252>>, <<174, 54, 206, 138, 179, 47, 137, 204>>,
       <<38, 234, 80, 153, 202, 248, 185, 57>>, <<119, 156, 97, 184, 128, 180, 170, 45>>,
       <<84, 231, 72, 233, 27, 169, 17, 59>>, <<63, 226, 59, 35, 48, 180, 115, 174>>,
       <<146, 40, 87, 242, 63, 152, 230, 236>>, <<176, 140, 184, 24, 55, 237, 57, 99>>,
       <<41, 40, 118, 138, 181, 233, 84, 122>>, <<213, 7, 143, 248, 55, 130, 248, 58>>,
       <<235, 80, 146, 179, 142, 193, 130, 222>>, <<205, 244, 35, 205, 97, 10, 32, 165>>,
       <<218, 0, 48, 161, 247, 114, 175, 171>>, <<148, 199, 166, 226, 254, 217, 155, 226>>,
       <<182, 231, 122, 21, 121, 184, 49, 139>>, <<107, 244, 89, 165, 180, 202, 218, 162>>,
       <<69, 237, 234, 177, 215, 161, 59, 41>>, <<34, 194, 227, 9, 105, 248, 155, 194>>,
       <<28, 104, 88, 9, 34, 91, 241, 129>>, <<24, 85, 65, 26, 167, 109, 150, 134>>,
       <<138, 38, 237, 81, 218, 118, 28, 55>>, <<80, 93, 164, 112, 88, 248, 204, 167>>,
       <<240, 102, 53, 233, 186, 4, 89, 66>>, <<65, 104, 99, 1, 10, 86, 172, 155>>,
       <<246, 179, 253, 78, 252, 48, 89, 236>>, <<57, 198, 109, 249, 20, 133, 194, 184>>,
       <<80, 24, 231, 116, 120, 2, 141, 7>>, <<104, 156, 79, 98, 220, 236, 74, 58>>,
       <<131, 220, 162, 60, 52, 178, 31, 63>>, <<202, 238, 214, 57, 129, 171, 210, 28>>,
       <<137, 48, 244, 69, 240, 20, 117, 61>>, <<123, 232, 240, 15, 254, 145, 65, 245>>,
       <<116, 124, 165, 106, 213, 243, 1, 34>>, <<151, 43, 12, 185, 241, 95, 40, 165>>,
       <<94, 87, 153, 30, 206, 225, 65, 45>>, <<38, 145, 203, 30, 97, 237, 255, 229>>,
       <<120, 15, 180, 167, 107, 100, 211, 204>>, <<44, 170, 160, 214, 143, 48, 23, 107>>,
       <<174, 143, 61, 240, 165, 60, 124, 187>>, <<7, 65, 37, 105, 248, 188, 89, 106>>,
       <<175, 252, 57, 61, 181, 170, 163, 194>>, <<54, 37, 40, 81, 71, 152, 70, 153>>,
       <<203, 221, 229, 106, 14, 217, 149, 152>>, <<129, 192, 217, 72, 26, 102, 237, 235>>,
       <<157, 30, 112, 197, 139, 230, 216, 164>>, <<146, 230, 116, 45, 136, 15, 244, 75>>,
       <<155, 54, 147, 29, 103, 108, 236, 104>>, <<32, 156, 14, 120, 18, 189, 114, 206>>,
       <<165, 40, 151, 127, 167, 125, 166, 65>>, <<70, 13, 55, 207, 6, 64, 122, 193>>,
       <<141, 91, 101, 48, 242, 90, 83, 237>>, <<110, 156, 225, 71, 89, 0, 145, 241>>,
       <<206, 7, 199, 126, 208, 112, 217, 101>>, <<125, 160, 79, 172, 67, 183, 58, 120>>,
       <<67, 143, 158, 227, 44, 219, 19, 127>>, <<67, 248, 176, 211, 227, 94, 137, 4>>,
       <<96, 229, 46, 40, 226, 165, 25, 149>>, <<140, 142, 180, 31, 235, 205, 235, 58>>,
       <<155, 213, 235, 155, 134, 76, 220, 157>>, <<252, 9, 76, 187, 129, 149, 58, 102>>,
       <<152, 119, 205, 91, 76, 54, 53, 67>>, <<16, 207, 140, 198, 138, 163, 6, 4>>,
       <<226, 35, 48, 61, 116, 113, 230, 197>>, <<167, 246, 6, 95, 29, 239, 163, 156>>,
       <<251, 43, 46, 192, 210, 87, 85, 78>>, <<191, 114, 86, 41, 247, 84, 78, 106>>,
       <<90, 22, 250, 8, 233, 67, 49, 137>>, <<0, 241, 190, 96, 43, 250, 87, 234>>,
       <<131, 79, 176, 115, 152, 106, 63, 238>>, <<56, 246, 144, 112, 51, 57, 7, 202>>,
       <<206, 237, 34, 233, 148, 8, 95, 148>>, <<21, 186, 138, 191, 13, 47, 90, 110>>,
       <<171, 24, 216, 200, 62, 206, 145, 181>>, <<59, 103, 87, 52, 111, 27, 108, 159>>,
       <<165, 222, 232, 246, 249, 167, 157, 80>>, <<95, 178, 251, 238, 224, 10, 97, 172>>,
       <<244, 23, 145, 90, 255, 192, 47, 98>>, <<83, 61, 226, 184, 21, 70, 125, 119>>,
       <<101, 218, 140, 14, 230, 166, 34, 38>>, <<219, 231, 31, 95, 217, 19, 159, 145>>,
       <<25, 226, 213, 149, 202, 121, 113, 208>>, <<57, 60, 162, 202, 50, 11, 81, 60>>,
       <<197, 111, 219, 58, 28, 65, 47, 89>>, <<236, 26, 229, 128, 75, 239, 221, 34>>,
       <<95, 111, 201, 25, 189, 129, 206, 255>>, <<51, 29, 151, 142, 165, 106, 214, 8>>,
       <<0, 182, 117, 177, 102, 236, 87, 99>>, <<55, 87, 110, 139, 5, 67, 99, 191>>,
       <<8, 136, 53, 244, 120, 96, 108, 232>>, <<27, 224, 18, 206, 246, 194, 197, 109>>,
       <<135, 69, 103, 2, 214, 80, 144, 216>>, <<225, 8, 194, 1, 242, 70, 228, 42>>,
       <<144, 101, 182, 111, 217, 216, 68, 232>>, <<241, 250, 241, 210, 72, 60, 189, 184>>,
       <<205, 234, 101, 224, 188, 237, 36, 132>>, <<28, 201, 63, 110, 54, 206, 226, 187>>,
       <<106, 55, 233, 186, 51, 101, 193, 89>>, <<103, 94, 137, 244, 223, 164, 73, 44>>,
       <<66, 199, 27, 97, 172, 203, 96, 234>>, <<91, 126, 223, 60, 27, 80, 109, 142>>,
       <<73, 116, 166, 218, 204, 174, 124, 169>>, <<187, 255, 209, 141, 158, 145, 2, 183>>,
       <<214, 84, 150, 164, 45, 180, 107, 88>>, <<164, 148, 127, 236, 227, 163, 221, 70>>,
       <<128, 160, 206, 227, 231, 200, 129, 199>>, <<233, 45, 167, 106, 141, 174, 110, 40>>,
       <<225, 35, 114, 238, 148, 240, 129, 114>>, <<237, 144, 76, 24, 58, 115, 115, 180>>,
       <<183, 211, 38, 139, 23, 17, 126, 204>>, <<85, 173, 22, 217, 226, 181, 23, 36>>,
       <<130, 73, 117, 94, 112, 180, 251, 163>>, <<63, 188, 117, 124, 0, 198, 202, 38>>,
       <<244, 185, 180, 17, 130, 50, 138, 137>>, <<142, 207, 98, 80, 18, 144, 173, 193>>,
       <<81, 125, 137, 54, 207, 94, 133, 252>>, <<231, 89, 170, 180, 0, 229, 70, 84>>,
       <<7, 47, 196, 142, 248, 8, 96, 46>>, <<19, 165, 146, 197, 55, 206, 179, 178>>,
       <<111, 139, 255, 164, 7, 216, 103, 43>>, <<18, 129, 237, 83, 253, 56, 144, 144>>,
       <<22, 220, 100, 35, 130, 222, 126, 136>>, <<121, 205, 147, 79, 56, 92, 56, 87>> >>

\* []byte("test")
BytesTest == <<116, 101, 115, 116>>

\* []byte("hello")
BytesHello == <<104, 101, 108, 108, 111>>

\* []byte("not-exists1")
BytesNotExists1 == <<110, 111, 116, 45, 101, 120, 105, 115, 116, 115, 49>>


\* the byte slices the operations are called with
Elements == {BytesTest, BytesHello, BytesNotExists1}

\* h[0:8] of sha256.Sum256(bsNonce), bsNonce an element with its nonce byte
Sum256Prefix(bsNonce) ==
    LET bs == SubSeq(bsNonce, 1, Len(bsNonce) - 1)
        nonce == bsNonce[Len(bsNonce)]
        digests == CASE bs = BytesTest -> DigestsTest
                     [] bs = BytesHello -> DigestsHello
                     [] bs = BytesNotExists1 -> DigestsNotExists1
    IN  digests[nonce + 1]

\* binary.BigEndian.Uint64(bytes[1..i]) % totBits, for totBits > 0
RECURSIVE Uint64Mod(_, _, _)
Uint64Mod(bytes, i, totBits) ==
    IF i = 0 THEN 0
    ELSE (Uint64Mod(bytes, i - 1, totBits) * 256 + bytes[i]) % totBits

\* bitI with a nonce that takes up the high byte of the slot index
bitICarry(bs, i, totBits) ==
    Uint64Mod(Sum256Prefix(Append(bs, (i + (i \div 256)) % 256)), 8, totBits)

\* bitI hashing the byte that follows bs in its array, when bs has capacity
\* left, in place of the nonce
bitIStale(bs, i, totBits) ==
    Uint64Mod(Sum256Prefix(Append(bs, IF array # << >> THEN array[1]
                                      ELSE i % 256)), 8, totBits)

\* bitI of slot i: the nonce is byte(i), the slot index truncated to a byte
bitI(bs, i, totBits) ==
    Uint64Mod(Sum256Prefix(Append(bs, i % 256)), 8, totBits)

\* x | bitFlip for a one-bit bitFlip
ByteOr(x, bitFlip) ==
    IF (x \div bitFlip) % 2 = 1 THEN x ELSE x + bitFlip

\* ------------------------------------------------------------- BigBloom

\* make([]byte, length) with the lowest bit of every byte set
MakeBytesLowBit(length) == [i \in 1..length |-> 1]

\* make([]byte, length)
MakeBytes(length) == [i \in 1..length |-> 0]

\* Accuracy without the case of the empty filter
AccuracyNoEmptyCase(f) ==
    IF f.isLoaded THEN MinusOne
    ELSE falsePositiveRate(f.len, f.n, f.k)

\* Accuracy without the case of the loaded filter
AccuracyIgnoresLoaded(f) ==
    IF f.n = 0 THEN Flt(1, 1)
    ELSE falsePositiveRate(f.len, f.n, f.k)

\* Get false positive rate; -1 means cannot be calcuated because it is loaded in
Accuracy(f) ==
    IF f.isLoaded THEN MinusOne
    ELSE IF f.n = 0 THEN Flt(1, 1)
    ELSE falsePositiveRate(f.len, f.n, f.k)

\* the slots i..last-1 of the loop of ExistsBytes, in the order of the
\* loop: the first half of the slots, and the second half when the first
\* has not returned
RECURSIVE ExistsSlots(_, _, _, _)
ExistsSlots(f, bs, i, last) ==
    LET totBits == Len(f.bs) * 8
        half == i + ((last - i) \div 2)
    IN  IF ~(i < last) THEN "true"
        ELSE IF totBits = 0 THEN "panic"
        ELSE IF last - i > 1
        THEN LET first == ExistsSlots(f, bs, i, half)
             IN  IF first # "true" THEN first
                 ELSE ExistsSlots(f, bs, half, last)
        ELSE LET byteI == bitI(bs, i, totBits) \div 8
                 iInByte == bitI(bs, i, totBits) % 8
                 bitFlip == 2 ^ iInByte
             IN  IF f.bs[byteI + 1] # ByteOr(f.bs[byteI + 1], bitFlip)
                 THEN "false"
                 ELSE "true"

\* the loop of ExistsBytes from slot i on: "panic" when the modulus is 0,
\* "false" at the first slot whose bit is unset, "true" past the last slot
ExistsLoop(f, bs, i) == ExistsSlots(f, bs, i, f.k)

\* ExistsBytes returning 1 for a present element as for an absent one
ExistsBytesAlwaysOne(f, bs) ==
    LET loop == ExistsLoop(f, bs, 0)
    IN  IF loop = "panic"
        THEN [err |-> Panic("integer divide by zero"), val |-> << >>]
        ELSE [err |-> Nil, val |-> <<loop = "true", Flt(1, 1)>>]

\* Checks for existance of bytes element: (bool, false positive rate)
ExistsBytes(f, bs) ==
    LET loop == ExistsLoop(f, bs, 0)
    IN  IF loop = "panic"
        THEN [err |-> Panic("integer divide by zero"), val |-> << >>]
        ELSE IF loop = "false"
        THEN [err |-> Nil, val |-> <<FALSE, Flt(1, 1)>>]
        ELSE [err |-> Nil, val |-> <<TRUE, Accuracy(f)>>]

\* PutLoop stopping one slot early
RECURSIVE PutLoopShort(_, _, _, _)
PutLoopShort(bytes, bs, i, kk) ==
    LET totBits == Len(bytes) * 8
    IN  IF ~(i < kk - 1) THEN bytes
        ELSE LET byteI == bitI(bs, i, totBits) \div 8
                 iInByte == bitI(bs, i, totBits) % 8
                 bitFlip == 2 ^ iInByte
             IN  PutLoopShort([bytes EXCEPT ![byteI + 1] = ByteOr(bytes[byteI + 1], bitFlip)],
                              bs, i + 1, kk)

\* PutLoop storing the one-bit mask in place of the byte
RECURSIVE PutLoopAssigns(_, _, _, _)
PutLoopAssigns(bytes, bs, i, kk) ==
    LET totBits == Len(bytes) * 8
    IN  IF ~(i < kk) THEN bytes
        ELSE LET byteI == bitI(bs, i, totBits) \div 8
                 iInByte == bitI(bs, i, totBits) % 8
                 bitFlip == 2 ^ iInByte
             IN  PutLoopAssigns([bytes EXCEPT ![byteI + 1] = bitFlip],
                                bs, i + 1, kk)

\* PutLoop setting the bit below the slot's bit as well
RECURSIVE PutLoopTwoBits(_, _, _, _)
PutLoopTwoBits(bytes, bs, i, kk) ==
    LET totBits == Len(bytes) * 8
    IN  IF ~(i < kk) THEN bytes
        ELSE LET byteI == bitI(bs, i, totBits) \div 8
                 iInByte == bitI(bs, i, totBits) % 8
                 bitFlip == 2 ^ iInByte
                 below == 2 ^ ((iInByte + 7) % 8)
             IN  PutLoopTwoBits([bytes EXCEPT ![byteI + 1] =
                                    ByteOr(ByteOr(bytes[byteI + 1], bitFlip), below)],
                                bs, i + 1, kk)

\* PutLoop going on for one slot past the last: the slots i..kk
RECURSIVE PutLoopLong(_, _, _, _)
PutLoopLong(bytes, bs, i, kk) ==
    LET totBits == Len(bytes) * 8
        half == i + ((kk + 1 - i) \div 2)
        first == PutLoopLong(bytes, bs, i, half - 1)
    IN  IF ~(i < kk + 1) THEN bytes
        ELSE IF kk + 1 - i > 1
        THEN IF first = bytes THEN PutLoopLong(bytes, bs, half, kk)
             ELSE PutLoopLong(first, bs, half, kk)
        ELSE LET byteI == bitI(bs, i, totBits) \div 8
                 iInByte == bitI(bs, i, totBits) % 8
                 bitFlip == 2 ^ iInByte
             IN  [bytes EXCEPT ![byteI + 1] = ByteOr(bytes[byteI + 1], bitFlip)]

\* the loop of PutBytes over the slots i..kk-1: the bytes with every slot's
\* bit set.  The slots are taken in the order of the loop, the first half
\* of them and then the second half on the bytes the first half left, be
\* they the bytes it was given or not.
RECURSIVE PutLoop(_, _, _, _)
PutLoop(bytes, bs, i, kk) ==
    LET totBits == Len(bytes) * 8
        half == i + ((kk - i) \div 2)
        first == PutLoop(bytes, bs, i, half)
    IN  IF ~(i < kk) THEN bytes
        ELSE IF kk - i > 1
        THEN IF first = bytes THEN PutLoop(bytes, bs, half, kk)
             ELSE PutLoop(first, bs, half, kk)
        ELSE LET byteI == bitI(bs, i, totBits) \div 8
                 iInByte == bitI(bs, i, totBits) % 8
                 bitFlip == 2 ^ iInByte
             IN  [bytes EXCEPT ![byteI + 1] = ByteOr(bytes[byteI + 1], bitFlip)]

\* PutBytes built from the order of its tests: capFirst tests the capacity
\* before the presence of the element, capTest(n, c) is the capacity test,
\* nn is the entry count the rate is projected at
PutBytesWith(f, bs, capFirst, capTest(_, _), nn) ==
    LET exists == ExistsLoop(f, bs, 0)
        full == f.cap # << >> /\ capTest(f.n, f.cap[1])
    IN  IF exists = "panic"
        THEN [b |-> f, err |-> Panic("integer divide by zero")]
        ELSE IF capFirst /\ full THEN [b |-> f, err |-> CapacityError(f.cap[1])]
        ELSE IF exists = "true" THEN [b |-> f, err |-> Nil]
        ELSE IF full THEN [b |-> f, err |-> CapacityError(f.cap[1])]
        ELSE IF f.maxFalsePositiveRate # << >>
                /\ FloatGt(falsePositiveRate(f.len, nn, f.k),
                           f.maxFalsePositiveRate[1])
        THEN [b |-> f, err |-> AccuracyError(f.maxFalsePositiveRate[1])]
        ELSE [b |-> [f EXCEPT !.bs = PutLoop(f.bs, bs, 0, f.k), !.n = f.n + 1],
              err |-> Nil]

\* PutBytes testing the capacity before the presence of the element
PutBytesCapFirst(f, bs) ==
    PutBytesWith(f, bs, TRUE, LAMBDA n, c : n = c, f.n + 1)

\* PutBytes rejecting only past the capacity
PutBytesPastCap(f, bs) ==
    PutBytesWith(f, bs, FALSE, LAMBDA n, c : n > c, f.n + 1)

\* PutBytes without the capacity test
PutBytesNoCap(f, bs) ==
    PutBytesWith(f, bs, FALSE, LAMBDA n, c : FALSE, f.n + 1)

\* PutBytes projecting the rate at the current entry count
PutBytesRateAtN(f, bs) ==
    PutBytesWith(f, bs, FALSE, LAMBDA n, c : n = c, f.n)

\* PutBytes counting the element it rejects
PutBytesCountsRejected(f, bs) ==
    LET r == PutBytesWith(f, bs, FALSE, LAMBDA n, c : n = c, f.n + 1)
    IN  IF r.err.type \in {"CapacityError", "AccuracyError"}
        THEN [b |-> [f EXCEPT !.n = f.n + 1], err |-> r.err]
        ELSE r

\* PutBytes counting an element that tests present
PutBytesCountsPresent(f, bs) ==
    LET r == PutBytesWith(f, bs, FALSE, LAMBDA n, c : n = c, f.n + 1)
    IN  IF ExistsLoop(f, bs, 0) = "true"
        THEN [b |-> [f EXCEPT !.n = f.n + 1], err |-> r.err]
        ELSE r

\* PutBytes growing the byte slice by one byte
PutBytesGrows(f, bs) ==
    LET r == PutBytesWith(f, bs, FALSE, LAMBDA n, c : n = c, f.n + 1)
    IN  IF r.err = Nil /\ ExistsLoop(f, bs, 0) = "false"
        THEN [b |-> [r.b EXCEPT !.bs = Append(r.b.bs, 0)], err |-> r.err]
        ELSE r

\* PutBytes testing the rate before the capacity
PutBytesRateFirst(f, bs) ==
    LET exists == ExistsLoop(f, bs, 0)
    IN  IF exists = "panic"
        THEN [b |-> f, err |-> Panic("integer divide by zero")]
        ELSE IF exists = "true" THEN [b |-> f, err |-> Nil]
        ELSE IF f.maxFalsePositiveRate # << >>
                /\ FloatGt(falsePositiveRate(f.len, f.n + 1, f.k),
                           f.maxFalsePositiveRate[1])
        THEN [b |-> f, err |-> AccuracyError(f.maxFalsePositiveRate[1])]
        ELSE IF f.cap # << >> /\ f.n = f.cap[1]
        THEN [b |-> f, err |-> CapacityError(f.cap[1])]
        ELSE [b |-> [f EXCEPT !.bs = PutLoop(f.bs, bs, 0, f.k), !.n = f.n + 1],
              err |-> Nil]

\* Inserts bytes element: the filter after the call and the error returned.
\* The call of ExistsBytes is its loop: the rate it returns is discarded.
\* The loop that sets the bits is reached only after ExistsBytes has
\* divided by the same totBits, so it cannot panic itself.
PutBytes(f, bs) ==
    LET exists == ExistsLoop(f, bs, 0)
    IN  IF exists = "panic"
        THEN [b |-> f, err |-> Panic("integer divide by zero")]
        ELSE IF exists = "true" THEN [b |-> f, err |-> Nil]
        ELSE IF f.cap # << >> /\ f.n = f.cap[1]
        THEN [b |-> f, err |-> CapacityError(f.cap[1])]
        ELSE IF f.maxFalsePositiveRate # << >>
                /\ FloatGt(falsePositiveRate(f.len, f.n + 1, f.k),
                           f.maxFalsePositiveRate[1])
        THEN [b |-> f, err |-> AccuracyError(f.maxFalsePositiveRate[1])]
        ELSE [b |-> [f EXCEPT !.bs = PutLoop(f.bs, bs, 0, f.k), !.n = f.n + 1],
              err |-> Nil]

\* AddCapacityConstraint without the test of the loaded flag
AddCapacityConstraintOnLoaded(f, capacity) ==
    IF capacity < 1
    THEN [b |-> f, err |-> ErrorsNew("capacity cannot be less than 1")]
    ELSE IF f.maxFalsePositiveRate # << >>
            /\ ~constraintsCompatible(f.len, capacity, f.k, f.maxFalsePositiveRate[1])
    THEN [b |-> f, err |-> ErrorsNew("false positive rate will be higher at full capacity than the maxFalsePositiveRate provided")]
    ELSE [b |-> [f EXCEPT !.cap = <<capacity>>], err |-> Nil]

\* Constrains bloom from not adding more than cap insertions
AddCapacityConstraint(f, capacity) ==
    IF f.isLoaded
    THEN [b |-> f, err |-> ErrorsNew("cannot add constraints to loaded bloom filters")]
    ELSE IF capacity < 1
    THEN [b |-> f, err |-> ErrorsNew("capacity cannot be less than 1")]
    ELSE IF f.maxFalsePositiveRate # << >>
            /\ ~constraintsCompatible(f.len, capacity, f.k, f.maxFalsePositiveRate[1])
    THEN [b |-> f, err |-> ErrorsNew("false positive rate will be higher at full capacity than the maxFalsePositiveRate provided")]
    ELSE [b |-> [f EXCEPT !.cap = <<capacity>>], err |-> Nil]

\* AddAccuracyConstraint accepting the rate 0
AddAccuracyConstraintZeroAllowed(f, rate) ==
    IF f.isLoaded
    THEN [b |-> f, err |-> ErrorsNew("cannot add constraints to loaded bloom filters")]
    ELSE IF FloatGt(Flt(0, 1), rate) \/ FloatGe(rate, Flt(1, 1))
    THEN [b |-> f, err |-> ErrorsNew("false positive rate must be between 0 and 1")]
    ELSE IF f.cap # << >>
            /\ ~constraintsCompatible(f.len, f.cap[1], f.k, rate)
    THEN [b |-> f, err |-> ErrorsNew("false positive rate will be higher at full capacity than the maxFalsePositiveRate provided")]
    ELSE [b |-> [f EXCEPT !.maxFalsePositiveRate = <<rate>>], err |-> Nil]

\* Constrains bloom from not adding more insertions that cause accuracy to
\* be worse than maxFalsePositiveRate
AddAccuracyConstraint(f, rate) ==
    IF f.isLoaded
    THEN [b |-> f, err |-> ErrorsNew("cannot add constraints to loaded bloom filters")]
    ELSE IF FloatLe(rate, Flt(0, 1)) \/ FloatGe(rate, Flt(1, 1))
    THEN [b |-> f, err |-> ErrorsNew("false positive rate must be between 0 and 1")]
    ELSE IF f.cap # << >>
            /\ ~constraintsCompatible(f.len, f.cap[1], f.k, rate)
    THEN [b |-> f, err |-> ErrorsNew("false positive rate will be higher at full capacity than the maxFalsePositiveRate provided")]
    ELSE [b |-> [f EXCEPT !.maxFalsePositiveRate = <<rate>>], err |-> Nil]

\* []byte(s) for the strings the operations are called with
Strings == {"test", "hello", "not-exists1"}

StrBytes(s) ==
    CASE s = "test" -> BytesTest
      [] s = "hello" -> BytesHello
      [] s = "not-exists1" -> BytesNotExists1

\* Checks for existance of a string: ExistsBytes of its bytes
ExistsStr(f, s) == ExistsBytes(f, StrBytes(s))

\* a string of hex digits is the sequence of its characters
HexDigits ==
    <<"0", "1", "2", "3", "4", "5", "6", "7",
      "8", "9", "a", "b", "c", "d", "e", "f">>

\* EncodeFrom writing the low digit of a byte first
RECURSIVE EncodeFromLowFirst(_, _)
EncodeFromLowFirst(bytes, i) ==
    IF i > Len(bytes) THEN << >>
    ELSE <<HexDigits[(bytes[i] % 16) + 1], HexDigits[(bytes[i] \div 16) + 1]>>
         \o EncodeFromLowFirst(bytes, i + 1)

\* hex.EncodeToString from byte i on: two digits a byte, the high one first
RECURSIVE EncodeFrom(_, _)
EncodeFrom(bytes, i) ==
    IF i > Len(bytes) THEN << >>
    ELSE <<HexDigits[(bytes[i] \div 16) + 1], HexDigits[(bytes[i] % 16) + 1]>>
         \o EncodeFrom(bytes, i + 1)

EncodeToString(bytes) == EncodeFrom(bytes, 1)

\* converts bytes of bloom filter to hex string
Hex(f) == EncodeToString(f.bs)

\* the value of a hex digit
HexValue(c) == CHOOSE v \in 0..15 : HexDigits[v + 1] = c

\* hex.DecodeString of an even number of digits, from digit i on
RECURSIVE DecodeFrom(_, _)
DecodeFrom(s, i) ==
    IF i > Len(s) THEN << >>
    ELSE <<HexValue(s[i]) * 16 + HexValue(s[i + 1])>> \o DecodeFrom(s, i + 2)

DecodeString(s) == DecodeFrom(s, 1)

\* ------------------------------------------------- Bloom (fixed length)

\* h[0:8] of sha256.Sum256(bs), bs an element without nonce
Sum256(bs) ==
    CASE bs = BytesTest -> <<159, 134, 208, 129, 136, 76, 125, 101>>
      [] bs = BytesHello -> <<44, 242, 77, 186, 95, 176, 163, 14>>
      [] bs = BytesNotExists1 -> <<68, 18, 125, 96, 244, 192, 223, 242>>

\* binary.BigEndian.Uint16(h[i : i+2]) % 512
bloomBitI(bs, i) == (Sum256(bs)[i + 1] * 256 + Sum256(bs)[i + 2]) % 512

\* Bloom.Accuracy
BloomAccuracy(f) ==
    IF f.n = 0 THEN Flt(1, 1) ELSE falsePositiveRate(f.len, f.n, f.k)

\* the loop of Bloom.ExistsBytes from slot i on
RECURSIVE BloomExistsLoop(_, _, _)
BloomExistsLoop(f, bs, i) ==
    IF ~(i < f.k) THEN TRUE
    ELSE LET byteI == bloomBitI(bs, i) \div 8
             iInByte == bloomBitI(bs, i) % 8
             bitFlip == 2 ^ iInByte
         IN  IF f.bs[byteI + 1] # ByteOr(f.bs[byteI + 1], bitFlip)
             THEN FALSE
             ELSE BloomExistsLoop(f, bs, i + 1)

\* Bloom.ExistsBytes
BloomExistsBytes(f, bs) ==
    IF BloomExistsLoop(f, bs, 0)
    THEN [err |-> Nil, val |-> <<TRUE, BloomAccuracy(f)>>]
    ELSE [err |-> Nil, val |-> <<FALSE, Flt(1, 1)>>]

\* the loop of Bloom.PutBytes from slot i on
RECURSIVE BloomPutLoop(_, _, _, _)
BloomPutLoop(bytes, bs, i, kk) ==
    IF ~(i < kk) THEN bytes
    ELSE LET byteI == bloomBitI(bs, i) \div 8
             iInByte == bloomBitI(bs, i) % 8
             bitFlip == 2 ^ iInByte
         IN  BloomPutLoop([bytes EXCEPT ![byteI + 1] = ByteOr(bytes[byteI + 1], bitFlip)],
                          bs, i + 1, kk)

\* Bloom.PutBytes
BloomPutBytes(f, bs) ==
    IF BloomExistsLoop(f, bs, 0) THEN [b |-> f, err |-> Nil]
    ELSE IF f.cap # << >> /\ f.n = f.cap[1]
    THEN [b |-> f, err |-> CapacityError(f.cap[1])]
    ELSE IF f.maxFalsePositiveRate # << >>
            /\ FloatGt(falsePositiveRate(f.len, f.n + 1, f.k),
                       f.maxFalsePositiveRate[1])
    THEN [b |-> f, err |-> AccuracyError(f.maxFalsePositiveRate[1])]
    ELSE [b |-> [f EXCEPT !.bs = BloomPutLoop(f.bs, bs, 0, f.k), !.n = f.n + 1],
          err |-> Nil]

\* Bloom.AddCapacityConstraint: the compatibility check is guarded by
\* b.cap != nil and dereferences b.maxFalsePositiveRate, a nil pointer when
\* no accuracy constraint was added
BloomAddCapacityConstraint(f, capacity) ==
    IF capacity < 1
    THEN [b |-> f, err |-> ErrorsNew("capacity cannot be less than 1")]
    ELSE IF f.cap # << >> /\ f.maxFalsePositiveRate = << >>
    THEN [b |-> f, err |-> Panic("invalid memory address or nil pointer dereference")]
    ELSE IF f.cap # << >>
            /\ ~constraintsCompatible(f.len, capacity, f.k, f.maxFalsePositiveRate[1])
    THEN [b |-> f, err |-> ErrorsNew("false positive rate will be higher at full capacity than the maxFalsePositiveRate provided")]
    ELSE [b |-> [f EXCEPT !.cap = <<capacity>>], err |-> Nil]

\* Bloom.AddAccuracyConstraint
BloomAddAccuracyConstraint(f, rate) ==
    IF FloatLe(rate, Flt(0, 1)) \/ FloatGe(rate, Flt(1, 1))
    THEN [b |-> f, err |-> ErrorsNew("false positive rate must be between 0 and 1")]
    ELSE IF f.cap # << >>
            /\ ~constraintsCompatible(f.len, f.cap[1], f.k, rate)
    THEN [b |-> f, err |-> ErrorsNew("false positive rate will be higher at full capacity than the maxFalsePositiveRate provided")]
    ELSE [b |-> [f EXCEPT !.maxFalsePositiveRate = <<rate>>], err |-> Nil]

\* ----------------------------------------------------- constructors
\* each yields the filter (meaningful when err is Nil) and the error

\* make([]byte, length) panics for a negative length
MakePanic == Panic("makeslice: len out of range")

NewBigBloomFromK(length, kk) ==
    IF kk < 1
    THEN [b |-> NilFilter, err |-> ErrorsNew("k cannot be less than 1")]
    ELSE IF length < 0 THEN [b |-> NilFilter, err |-> MakePanic]
    ELSE [b |-> Filter(0, kk, MakeBytes(length), << >>, << >>, FALSE), err |-> Nil]

NewBigBloomFromCap(length, capacity) ==
    IF capacity < 1
    THEN [b |-> NilFilter, err |-> ErrorsNew("capacity cannot be less than 1")]
    ELSE IF length < 0 THEN [b |-> NilFilter, err |-> MakePanic]
    ELSE [b |-> Filter(0, calcKFromCap(length, capacity), MakeBytes(length),
                       << >>, << >>, FALSE),
          err |-> Nil]

NewBigBloomFromAcc(length, rate) ==
    IF FloatLe(rate, Flt(0, 1)) \/ FloatGe(rate, Flt(1, 1))
    THEN [b |-> NilFilter, err |-> ErrorsNew("false positive rate must be between 0 and 1")]
    ELSE IF length < 0 THEN [b |-> NilFilter, err |-> MakePanic]
    ELSE [b |-> Filter(0, calcKFromAcc(length, rate), MakeBytes(length),
                       << >>, << >>, FALSE),
          err |-> Nil]

\* NewBigBloomAlloc validating the rate before the capacity
NewBigBloomAllocRateFirst(capacity, rate) ==
    IF FloatLe(rate, Flt(0, 1)) \/ FloatGe(rate, Flt(1, 1))
    THEN [b |-> NilFilter, err |-> ErrorsNew("false positive rate must be between 0 and 1")]
    ELSE IF capacity < 1
    THEN [b |-> NilFilter, err |-> ErrorsNew("capacity cannot be less than 1")]
    ELSE LET length == allocLen(capacity, rate)
         IN  [b |-> Filter(0, calcKFromCap(length, capacity), MakeBytes(length),
                           <<capacity>>, <<rate>>, FALSE),
              err |-> Nil]

NewBigBloomAlloc(capacity, rate) ==
    IF capacity < 1
    THEN [b |-> NilFilter, err |-> ErrorsNew("capacity cannot be less than 1")]
    ELSE IF FloatLe(rate, Flt(0, 1)) \/ FloatGe(rate, Flt(1, 1))
    THEN [b |-> NilFilter, err |-> ErrorsNew("false positive rate must be between 0 and 1")]
    ELSE LET length == allocLen(capacity, rate)
         IN  [b |-> Filter(0, calcKFromCap(length, capacity), MakeBytes(length),
                           <<capacity>>, <<rate>>, FALSE),
              err |-> Nil]

FromBytes(bytes, kk) ==
    IF kk < 1
    THEN [b |-> NilFilter, err |-> ErrorsNew("k cannot be less than 1")]
    ELSE [b |-> Filter(0, kk, bytes, << >>, << >>, TRUE), err |-> Nil]

\* ------------------------------------------------------------ the program

\* the arguments the calls are made with
Lens == -1..MaxLen
Ks == 0..MaxK
Caps == 0..MaxCap
Rates == {Flt(0, 1), Flt(1, 64), Flt(1, 8), Flt(7, 8), Flt(1, 1)}
LoadedBytes == {<< >>, <<0>>, <<145>>, <<144, 0>>}

\* atCap after a call that leaves the filter f
AtCapAfter(f) ==
    IF atCap = << >> /\ f.cap # << >> /\ f.n = f.cap[1] THEN <<f.n>> ELSE atCap

Init ==
    /\ pc = "new"
    /\ b = NilFilter
    /\ pre = NilFilter
    /\ ret = NoCall
    /\ inserted = {}
    /\ atCap = << >>
    /\ built = << >>
    /\ queries = << >>
    /\ array = << >>
    /\ twin = NilFilter

\* a constructor call returning r
Construct(op, arg, r) ==
    /\ pc = "new"
    /\ pc' = IF r.err.type = "panic" THEN "crashed"
             ELSE IF r.err = Nil THEN "live" ELSE "new"
    /\ b' = r.b
    /\ pre' = b
    /\ ret' = [op |-> op, arg |-> arg, err |-> r.err, val |-> << >>]
    /\ atCap' = AtCapAfter(r.b)
    /\ built' = IF r.err = Nil THEN <<op, arg>> ELSE built
    /\ UNCHANGED <<inserted, queries, array, twin>>

CallNewBigBloomFromK ==
    \E length \in Lens, kk \in Ks :
        Construct("NewBigBloomFromK", <<length, kk>>, NewBigBloomFromK(length, kk))

CallNewBigBloomFromCap ==
    \E length \in Lens, capacity \in Caps :
        Construct("NewBigBloomFromCap", <<length, capacity>>,
                  NewBigBloomFromCap(length, capacity))

CallNewBigBloomFromAcc ==
    \E length \in Lens, rate \in Rates :
        Construct("NewBigBloomFromAcc", <<length, rate>>,
                  NewBigBloomFromAcc(length, rate))

CallNewBigBloomAlloc ==
    \E capacity \in Caps \cup {BigCap}, rate \in Rates :
        Construct("NewBigBloomAlloc", <<capacity, rate>>,
                  NewBigBloomAlloc(capacity, rate))

CallFromBytes ==
    \E bytes \in LoadedBytes, kk \in Ks :
        Construct("FromBytes", <<bytes, kk>>, FromBytes(bytes, kk))

\* a method call on the live filter returning the filter r.b, the error
\* r.err and the values val
Method(op, arg, r, val) ==
    /\ pc = "live"
    /\ pc' = IF r.err.type = "panic" THEN "crashed" ELSE "live"
    /\ b' = r.b
    /\ pre' = b
    /\ ret' = [op |-> op, arg |-> arg, err |-> r.err, val |-> val]
    /\ atCap' = AtCapAfter(r.b)
    /\ UNCHANGED <<built, queries, array, twin>>

CallPutBytes ==
    \E bs \in Elements : \E r \in {PutBytes(b, bs)} :
        /\ Method("PutBytes", <<bs>>, r, << >>)
        /\ inserted' = IF r.err = Nil THEN inserted \cup {bs} ELSE inserted

CallExistsBytes ==
    \E bs \in Elements : \E r \in {ExistsBytes(b, bs)} :
        /\ Method("ExistsBytes", <<bs>>, [b |-> b, err |-> r.err], r.val)
        /\ UNCHANGED inserted

CallAccuracy ==
    /\ Method("Accuracy", << >>, [b |-> b, err |-> Nil], <<Accuracy(b)>>)
    /\ UNCHANGED inserted

CallAddCapacityConstraint ==
    \E capacity \in Caps : \E r \in {AddCapacityConstraint(b, capacity)} :
        /\ Method("AddCapacityConstraint", <<capacity>>, r, << >>)
        /\ UNCHANGED inserted

CallAddAccuracyConstraint ==
    \E rate \in Rates : \E r \in {AddAccuracyConstraint(b, rate)} :
        /\ Method("AddAccuracyConstraint", <<rate>>, r, << >>)
        /\ UNCHANGED inserted

\* ExistsStr(s) on the live filter
CallExistsStr ==
    \E s \in Strings : \E r \in {ExistsStr(b, s)} :
        /\ Method("ExistsStr", <<s>>, [b |-> b, err |-> r.err], r.val)
        /\ UNCHANGED inserted

\* Hex() on the live filter
CallHex ==
    /\ Method("Hex", << >>, [b |-> b, err |-> Nil], <<Hex(b)>>)
    /\ UNCHANGED inserted

\* the filter is exported and loaded again beside it:
\* g, err := FromBytes(the bytes decoded from b.Hex(), b.k); val is <<g>>
CallExportImport ==
    \E r \in {FromBytes(DecodeString(Hex(b)), b.k)} :
        /\ Method("ExportImport", << >>, [b |-> b, err |-> r.err], <<r.b>>)
        /\ UNCHANGED inserted

Next ==
    \/ CallNewBigBloomFromK
    \/ CallNewBigBloomFromCap
    \/ CallNewBigBloomFromAcc
    \/ CallNewBigBloomAlloc
    \/ CallFromBytes
    \/ CallPutBytes
    \/ CallExistsBytes
    \/ CallAccuracy
    \/ CallAddCapacityConstraint
    \/ CallAddAccuracyConstraint
    \/ CallExistsStr
    \/ CallHex
    \/ CallExportImport

Spec == Init /\ [][Next]_vars

\* ------------------------------------- the program on a fixed-length Bloom

BloomKs == 1..MaxK
BloomRates == {Flt(0, 1), Flt(1, 1024), Flt(1, 256), Flt(1, 1)}

\* a Bloom of 64 zero bytes with no constraint and any k
InitBloom ==
    /\ pc = "live"
    /\ b \in {EmptyBloom(kk) : kk \in BloomKs}
    /\ pre = b
    /\ ret = NoCall
    /\ inserted = {}
    /\ atCap = << >>
    /\ built = << >>
    /\ queries = << >>
    /\ array = << >>
    /\ twin = NilFilter

CallBloomPutBytes ==
    \E bs \in Elements : \E r \in {BloomPutBytes(b, bs)} :
        /\ Method("PutBytes", <<bs>>, r, << >>)
        /\ inserted' = IF r.err = Nil THEN inserted \cup {bs} ELSE inserted

CallBloomExistsBytes ==
    \E bs \in Elements : \E r \in {BloomExistsBytes(b, bs)} :
        /\ Method("ExistsBytes", <<bs>>, [b |-> b, err |-> r.err], r.val)
        /\ UNCHANGED inserted

CallBloomAccuracy ==
    /\ Method("Accuracy", << >>, [b |-> b, err |-> Nil], <<BloomAccuracy(b)>>)
    /\ UNCHANGED inserted

CallBloomAddCapacityConstraint ==
    \E capacity \in Caps : \E r \in {BloomAddCapacityConstraint(b, capacity)} :
        /\ Method("AddCapacityConstraint", <<capacity>>, r, << >>)
        /\ UNCHANGED inserted

CallBloomAddAccuracyConstraint ==
    \E rate \in BloomRates : \E r \in {BloomAddAccuracyConstraint(b, rate)} :
        /\ Method("AddAccuracyConstraint", <<rate>>, r, << >>)
        /\ UNCHANGED inserted

NextBloom ==
    \/ CallBloomPutBytes
    \/ CallBloomExistsBytes
    \/ CallBloomAccuracy
    \/ CallBloomAddCapacityConstraint
    \/ CallBloomAddAccuracyConstraint

SpecBloom == InitBloom /\ [][NextBloom]_vars

\* ------------------------------------------ the rate function on its own

\* the byte lengths falsePositiveRate is called with: the short ones, whose
\* bit counts 8, 16, 24 are and are not powers of two, and the 64 bytes of
\* a Bloom
RateArgLens == (1..MaxRateLen) \cup {64}

InitRate ==
    /\ pc = "rate"
    /\ b = NilFilter
    /\ pre = NilFilter
    /\ ret = NoCall
    /\ inserted = {}
    /\ atCap = << >>
    /\ built = << >>
    /\ queries = << >>
    /\ array = << >>
    /\ twin = NilFilter

\* falsePositiveRate(length, nn, kk) is called; val is <<the rate>>
CallFalsePositiveRate ==
    \E length \in RateArgLens, nn \in 0..MaxRateN, kk \in 1..MaxRateK :
        /\ pc = "rate"
        /\ ret' = [op |-> "falsePositiveRate", arg |-> <<length, nn, kk>>,
                   err |-> Nil,
                   val |-> <<falsePositiveRate(length, nn, kk)>>]
        /\ UNCHANGED <<pc, b, pre, inserted, atCap, built, queries, array, twin>>

NextRate == CallFalsePositiveRate

SpecRate == InitRate /\ [][NextRate]_vars

\* ------------------------------------------ queries run by goroutines
\* MaxGo goroutines each make one query on the same filter; the goroutines
\* that call ExistsBytes pass it the same byte slice.  A goroutine runs
\* ExistsBytes a step at a time: the append of the nonce, then the hash and
\* the test of the bit.

\* the filters queried: built by NewBigBloomFromK and up to two PutBytes
QueryFilters ==
    LET none == {NewBigBloomFromK(length, kk).b :
                     length \in 1..MaxLen, kk \in 1..MaxK}
        one == none \cup {PutBytes(f, e).b : f \in none, e \in Elements}
    IN  one \cup {PutBytes(f, e).b : f \in one, e \in Elements}

\* a goroutine about to make the call op(arg): slot is the i of the loop of
\* ExistsBytes, at is "call" before the append of a slot, "shared" after an
\* append that wrote the nonce into the array of the caller's slice, "own"
\* after an append that copied the slice, "done" when val was returned
StartQuery(op, arg) ==
    [op |-> op, arg |-> arg, val |-> << >>, slot |-> 0, at |-> "call"]

\* the queries a goroutine can make, e being the slice handed to ExistsBytes
QueryCalls(e) ==
    {StartQuery("ExistsBytes", <<e>>), StartQuery("Accuracy", << >>),
     StartQuery("Hex", << >>)}
        \cup {StartQuery("ExistsStr", <<s>>) : s \in Strings}

InitQueries ==
    /\ pc = "live"
    /\ b \in QueryFilters
    /\ pre = b
    /\ ret = NoCall
    /\ inserted = {}
    /\ atCap = << >>
    /\ built = << >>
    /\ \E e \in Elements : queries \in [1..MaxGo -> QueryCalls(e)]
    /\ array \in {<< >>, <<0>>}
    /\ twin = NilFilter

\* goroutine g goes on as q
QueryStep(g, q) ==
    /\ queries' = [queries EXCEPT ![g] = q]
    /\ UNCHANGED <<pc, b, pre, ret, inserted, atCap, built, twin>>

\* goroutine g returns val
QueryDone(g, val) ==
    QueryStep(g, [queries[g] EXCEPT !.val = val, !.at = "done"])

\* the bytes ExistsBytes works on: the slice passed, or []byte(s) in ExistsStr
QueryBytes(q) == IF q.op = "ExistsStr" THEN StrBytes(q.arg[1]) ELSE q.arg[1]

QueryAccuracy(g) ==
    /\ queries[g].op = "Accuracy"
    /\ queries[g].at = "call"
    /\ QueryDone(g, <<Accuracy(b)>>)
    /\ UNCHANGED array

QueryHex(g) ==
    /\ queries[g].op = "Hex"
    /\ queries[g].at = "call"
    /\ QueryDone(g, <<Hex(b)>>)
    /\ UNCHANGED array

\* bsNonce := append(bs, byte(i)): with capacity left in bs the nonce is
\* written into the array of bs, which bsNonce shares; without, and for the
\* []byte(s) of ExistsStr, bs is copied into an array of the goroutine's own
QueryAppend(g) ==
    /\ queries[g].op \in {"ExistsBytes", "ExistsStr"}
    /\ queries[g].at = "call"
    /\ queries[g].slot < b.k
    /\ IF queries[g].op = "ExistsBytes" /\ array # << >>
       THEN /\ array' = <<queries[g].slot % 256>>
            /\ QueryStep(g, [queries[g] EXCEPT !.at = "shared"])
       ELSE /\ UNCHANGED array
            /\ QueryStep(g, [queries[g] EXCEPT !.at = "own"])

\* the hash of bsNonce and the test of the bit: bsNonce ends with the byte
\* its array holds now
QueryTest(g) ==
    /\ queries[g].at \in {"shared", "own"}
    /\ LET nonce == IF queries[g].at = "shared" THEN array[1]
                    ELSE queries[g].slot % 256
           totBits == Len(b.bs) * 8
           byteI == bitI(QueryBytes(queries[g]), nonce, totBits) \div 8
           iInByte == bitI(QueryBytes(queries[g]), nonce, totBits) % 8
           bitFlip == 2 ^ iInByte
       IN  IF b.bs[byteI + 1] # ByteOr(b.bs[byteI + 1], bitFlip)
           THEN QueryDone(g, <<FALSE, Flt(1, 1)>>)
           ELSE QueryStep(g, [queries[g] EXCEPT !.slot = queries[g].slot + 1,
                                                !.at = "call"])
    /\ UNCHANGED array

\* return true, b.Accuracy()
QueryReturn(g) ==
    /\ queries[g].op \in {"ExistsBytes", "ExistsStr"}
    /\ queries[g].at = "call"
    /\ ~(queries[g].slot < b.k)
    /\ QueryDone(g, <<TRUE, Accuracy(b)>>)
    /\ UNCHANGED array

NextQueries ==
    \E g \in 1..MaxGo :
        \/ QueryAccuracy(g)
        \/ QueryHex(g)
        \/ QueryAppend(g)
        \/ QueryTest(g)
        \/ QueryReturn(g)

SpecQueries == InitQueries /\ [][NextQueries]_vars

\* --------------------------------------- filters of many hash slots
\* NewBigBloomFromK has returned a filter whose k is small, or near the
\* number of nonces a byte holds: with such a k the inserts of the Elements
\* set every bit of a short filter, and the slot index passes 255.

FillLens == (1..MaxLen) \cup {64}
FillKs == (1..MaxFillK) \cup ((NonceCount - 1)..(NonceCount + MaxWrap))

\* the slots whose position is asked for: the first, and those around the
\* slot whose index no longer fits a byte
FillSlots == (0..MaxWrap) \cup ((NonceCount - 1)..(NonceCount + MaxWrap))

InitFill ==
    /\ pc = "live"
    /\ \E length \in FillLens, kk \in FillKs :
           /\ b = NewBigBloomFromK(length, kk).b
           /\ ret = [op |-> "NewBigBloomFromK", arg |-> <<length, kk>>,
                     err |-> Nil, val |-> << >>]
           /\ built = <<"NewBigBloomFromK", <<length, kk>>>>
    /\ pre = NilFilter
    /\ inserted = {}
    /\ atCap = << >>
    /\ queries = << >>
    /\ array = << >>
    /\ twin = NilFilter

\* the position of slot i, as the loops of PutBytes and ExistsBytes on the
\* live filter compute it for the element bs
CallBitI ==
    \E bs \in Elements, i \in FillSlots :
        /\ i < b.k
        /\ Method("bitI", <<bs, i>>, [b |-> b, err |-> Nil],
                  <<bitI(bs, i, Len(b.bs) * 8)>>)
        /\ UNCHANGED inserted

NextFill ==
    \/ CallPutBytes
    \/ CallExistsBytes
    \/ CallAccuracy
    \/ CallBitI

SpecFill == InitFill /\ [][NextFill]_vars

\* ------------------------------------------------------- two filters
\* Two filters with the same bits, len, k, n and constraints, built by the
\* same constructor or not, are given the same calls, first the one and
\* then the other.  The two calls are made with byte slices of the same
\* bytes; what follows the bytes in the array of a slice is whatever the
\* caller left there.

\* the filters the constructors return: those built empty, and those
\* loaded by FromBytes from one byte or more
TwinFilters ==
    {r.b : r \in {x \in
        {NewBigBloomFromK(length, kk) : length \in 1..MaxLen, kk \in Ks}
        \cup {NewBigBloomFromCap(length, capacity) :
                  length \in 1..MaxLen, capacity \in Caps}
        \cup {NewBigBloomFromAcc(length, rate) :
                  length \in 1..MaxLen, rate \in Rates}
        \cup {NewBigBloomAlloc(capacity, rate) :
                  capacity \in Caps, rate \in Rates}
        \cup {FromBytes(bytes, kk) :
                  bytes \in LoadedBytes \ {<< >>}, kk \in Ks} : x.err = Nil}}

\* what may follow the last byte of a slice in its array
Spares == {<< >>, <<0>>, <<1>>, <<255>>}

InitTwins ==
    /\ pc = "live"
    /\ b \in TwinFilters
    /\ twin \in {g \in TwinFilters :
                     /\ g.bs = b.bs
                     /\ g.len = b.len
                     /\ g.k = b.k
                     /\ g.n = b.n
                     /\ g.cap = b.cap
                     /\ g.maxFalsePositiveRate = b.maxFalsePositiveRate}
    /\ pre = b
    /\ ret = NoCall
    /\ inserted = {}
    /\ atCap = << >>
    /\ built = << >>
    /\ queries = << >>
    /\ array \in Spares

\* the first filter is given the call op(arg), which leaves it as r.b and
\* returns val; the second has yet to be given it, with another slice
TwinFirst(op, arg, r, val) ==
    /\ pc = "live"
    /\ pc' = "behind"
    /\ b' = r.b
    /\ pre' = b
    /\ ret' = [op |-> op, arg |-> arg, err |-> r.err, val |-> <<val>>]
    /\ array' \in Spares
    /\ UNCHANGED <<inserted, atCap, built, queries, twin>>

\* the second filter is given the call the first was given: val holds what
\* the two calls returned
TwinSecond(op, r, val) ==
    /\ pc = "behind"
    /\ ret.op = op
    /\ pc' = "live"
    /\ twin' = r.b
    /\ ret' = [ret EXCEPT !.val = Append(ret.val, val)]
    /\ array' \in Spares
    /\ UNCHANGED <<b, pre, inserted, atCap, built, queries>>

TwinPutBytesFirst ==
    \E bs \in Elements : \E r \in {PutBytes(b, bs)} :
        TwinFirst("PutBytes", <<bs>>, r, r.err)

TwinPutBytesSecond ==
    /\ pc = "behind"
    /\ ret.op = "PutBytes"
    /\ \E r \in {PutBytes(twin, ret.arg[1])} :
           TwinSecond("PutBytes", r, r.err)

TwinExistsBytesFirst ==
    \E bs \in Elements : \E r \in {ExistsBytes(b, bs)} :
        TwinFirst("ExistsBytes", <<bs>>, [b |-> b, err |-> r.err], r.val)

TwinExistsBytesSecond ==
    /\ pc = "behind"
    /\ ret.op = "ExistsBytes"
    /\ \E r \in {ExistsBytes(twin, ret.arg[1])} :
           TwinSecond("ExistsBytes", [b |-> twin, err |-> r.err], r.val)

NextTwins ==
    \/ TwinPutBytesFirst
    \/ TwinPutBytesSecond
    \/ TwinExistsBytesFirst
    \/ TwinExistsBytesSecond

SpecTwins == InitTwins /\ [][NextTwins]_vars

\* ------------------------------------------------------------ properties
\* pre, ret and b are the filter before the last call, the call and what it
\* returned, and the filter after it

\* C1: no false negatives: an element for which PutBytes has returned a nil
\* error tests present in every later state, and every ExistsBytes call
\* made for it returns true, whatever calls were made in between
NoFalseNegatives ==
    /\ \A bs \in inserted : ExistsBytes(b, bs).val[1] = TRUE
    /\ (ret.op = "ExistsBytes" /\ ret.arg[1] \in inserted)
           => ret.err = Nil /\ ret.val[1] = TRUE

\* two elements inserted, other calls made, and one of them queried
NoFalseNegativesWitness ==
    /\ ret.op = "ExistsBytes"
    /\ ret.arg[1] \in inserted
    /\ Cardinality(inserted) >= 2
    /\ b.cap # << >>
    /\ b.maxFalsePositiveRate # << >>

\* C2: idempotent insert: PutBytes of an element that tests present returns
\* a nil error and leaves the entry count and every bit unchanged, also at
\* n == capacity and when the rate projected at n+1 is above the bound
IdempotentInsert ==
    (ret.op = "PutBytes" /\ ExistsLoop(pre, ret.arg[1], 0) = "true")
        => ret.err = Nil /\ b = pre

\* a present element put at n == capacity with the projected rate above
\* the attached bound
IdempotentInsertWitness ==
    /\ ret.op = "PutBytes"
    /\ ExistsLoop(pre, ret.arg[1], 0) = "true"
    /\ pre.cap = <<pre.n>>
    /\ pre.maxFalsePositiveRate # << >>
    /\ FloatGt(falsePositiveRate(pre.len, pre.n + 1, pre.k),
               pre.maxFalsePositiveRate[1])

\* C3: capacity enforcement at insert: with capacity c attached, PutBytes
\* of an element that does not test present returns CapacityError{c} and
\* changes nothing when n == c, and succeeds, adding one to n, when n < c
\* and the rate projected at n+1 is not above an attached bound
CapacityEnforced ==
    (ret.op = "PutBytes" /\ ExistsLoop(pre, ret.arg[1], 0) = "false"
     /\ pre.cap # << >>)
        => /\ pre.n = pre.cap[1]
                  => ret.err = CapacityError(pre.cap[1]) /\ b = pre
           /\ (/\ pre.n < pre.cap[1]
               /\ \/ pre.maxFalsePositiveRate = << >>
                  \/ FloatLe(falsePositiveRate(pre.len, pre.n + 1, pre.k),
                             pre.maxFalsePositiveRate[1]))
                  => /\ ret.err = Nil
                     /\ b.n = pre.n + 1
                     /\ ExistsLoop(b, ret.arg[1], 0) = "true"

\* an absent element rejected at capacity after an insert was admitted
CapacityEnforcedWitness ==
    /\ ret.op = "PutBytes"
    /\ ret.err.type = "CapacityError"
    /\ pre.n >= 1
    /\ ExistsLoop(pre, ret.arg[1], 0) = "false"

\* C4: capacity is an upper bound of the entry count: with a capacity
\* attached, n <= capacity in every reachable state
CapacityBoundsEntryCount ==
    b.cap # << >> => b.n <= b.cap[1]

\* C5: accuracy enforcement at insert: with rate r attached, PutBytes of an
\* element that does not test present, the capacity test not failing,
\* returns AccuracyError{r} and changes nothing exactly when
\* falsePositiveRate(len, n+1, k) > r, and admits the element otherwise
AccuracyEnforced ==
    (ret.op = "PutBytes" /\ ExistsLoop(pre, ret.arg[1], 0) = "false"
     /\ pre.maxFalsePositiveRate # << >>
     /\ ~(pre.cap # << >> /\ pre.n = pre.cap[1]))
        => IF FloatGt(falsePositiveRate(pre.len, pre.n + 1, pre.k),
                      pre.maxFalsePositiveRate[1])
           THEN ret.err = AccuracyError(pre.maxFalsePositiveRate[1]) /\ b = pre
           ELSE /\ ret.err = Nil
                /\ b.n = pre.n + 1
                /\ ExistsLoop(b, ret.arg[1], 0) = "true"

\* an absent element rejected for the rate after an insert was admitted
\* under the same bound
AccuracyEnforcedWitness ==
    /\ ret.op = "PutBytes"
    /\ ret.err.type = "AccuracyError"
    /\ pre.n >= 1
    /\ pre.cap # << >>

\* C6: the rate never goes beyond the attached bound: on a filter that is
\* not loaded, with rate r attached and n >= 1, falsePositiveRate(len, n, k)
\* <= r in every reachable state
RateWithinBound ==
    (~b.isLoaded /\ b.maxFalsePositiveRate # << >> /\ b.n >= 1)
        => FloatLe(falsePositiveRate(b.len, b.n, b.k), b.maxFalsePositiveRate[1])

\* C7: constraint compatibility: an attach call made with a valid argument
\* and the other constraint present fails and changes nothing when
\* falsePositiveRate(len, c, k) > r and succeeds otherwise, and whenever
\* both constraints are present falsePositiveRate(len, capacity, k) <= r
ConstraintsCompatible ==
    /\ (ret.op = "AddCapacityConstraint" /\ ret.arg[1] >= 1
        /\ pre.maxFalsePositiveRate # << >>)
           => IF FloatGt(falsePositiveRate(pre.len, ret.arg[1], pre.k),
                         pre.maxFalsePositiveRate[1])
              THEN ret.err.type = "error" /\ b = pre
              ELSE ret.err = Nil /\ b = [pre EXCEPT !.cap = <<ret.arg[1]>>]
    /\ (ret.op = "AddAccuracyConstraint" /\ pre.cap # << >>
        /\ FloatGt(ret.arg[1], Flt(0, 1)) /\ FloatGt(Flt(1, 1), ret.arg[1]))
           => IF FloatGt(falsePositiveRate(pre.len, pre.cap[1], pre.k),
                         ret.arg[1])
              THEN ret.err.type = "error" /\ b = pre
              ELSE ret.err = Nil
                   /\ b = [pre EXCEPT !.maxFalsePositiveRate = <<ret.arg[1]>>]
    /\ (b.cap # << >> /\ b.maxFalsePositiveRate # << >>)
           => FloatLe(falsePositiveRate(b.len, b.cap[1], b.k),
                      b.maxFalsePositiveRate[1])

\* C8: on the fixed-length Bloom, AddCapacityConstraint(c) makes the
\* compatibility check exactly when a rate is attached: it fails, leaving
\* the capacity, when a rate r is attached and falsePositiveRate(len, c, k)
\* > r, and succeeds when no rate is attached, whether or not a capacity
\* was attached before
BloomCapacityCheckedAgainstRate ==
    (ret.op = "AddCapacityConstraint" /\ ret.arg[1] >= 1)
        => IF pre.maxFalsePositiveRate # << >>
              /\ FloatGt(falsePositiveRate(pre.len, ret.arg[1], pre.k),
                         pre.maxFalsePositiveRate[1])
           THEN ret.err.type = "error" /\ b = pre
           ELSE ret.err = Nil /\ b = [pre EXCEPT !.cap = <<ret.arg[1]>>]

\* C9: no call aborts the process: every call made on a filter that a
\* constructor returned without error returns a result or an error value
NoCallAborts ==
    ret.op \in {"PutBytes", "ExistsBytes", "Accuracy", "AddCapacityConstraint",
                "AddAccuracyConstraint"}
        => ret.err.type # "panic"

\* C10 as stated: once a capacity is attached with n == capacity, the
\* entry count never increases in any later state
CapacityExhaustionTerminal ==
    atCap # << >> => b.n <= atCap[1]

\* C10: a call made with a capacity attached and n == capacity does not
\* increase the entry count: PutBytes of an element that does not test
\* present returns the CapacityError, PutBytes of a present element and
\* ExistsBytes succeed, and every call but a successful
\* AddCapacityConstraint leaves n == capacity
CapacityExhaustionHolds ==
    (pre.cap # << >> /\ pre.n = pre.cap[1] /\ ret # NoCall)
        => /\ b.n = pre.n
           /\ (ret.op # "AddCapacityConstraint" \/ ret.err # Nil)
                  => b.cap = pre.cap
           /\ ret.op = "PutBytes"
                  => /\ b = pre
                     /\ ret.err = IF ExistsLoop(pre, ret.arg[1], 0) = "true"
                                  THEN Nil ELSE CapacityError(pre.cap[1])
           /\ ret.op = "ExistsBytes"
                  => /\ ret.err = Nil
                     /\ ret.arg[1] \in inserted => ret.val[1] = TRUE

\* a present element put again, with a nil error, on a filter at capacity
\* that had refused or could refuse an absent one
CapacityExhaustionWitness ==
    /\ pre.cap # << >>
    /\ pre.n = pre.cap[1]
    /\ pre.n >= 2
    /\ ret.op = "PutBytes"
    /\ ret.err = Nil
    /\ ret.arg[1] \in inserted

\* C11: a rejected insert changes nothing: when PutBytes returns a
\* CapacityError or an AccuracyError the filter (bits, n, k, len, both
\* constraints, loaded flag) is as before the call, and every element
\* inserted earlier still tests present
RejectedInsertChangesNothing ==
    (ret.op = "PutBytes" /\ ret.err.type \in {"CapacityError", "AccuracyError"})
        => /\ b = pre
           /\ \A bs \in inserted : ExistsBytes(b, bs) = [err |-> Nil, val |-> <<TRUE, Accuracy(pre)>>]

\* an insert rejected for the capacity with two elements inserted before
RejectedInsertWitness ==
    /\ ret.op = "PutBytes"
    /\ ret.err.type = "CapacityError"
    /\ Cardinality(inserted) >= 2
    /\ ret.arg[1] \notin inserted

\* C12: ExistsBytes of an element with one of its k positions unset returns
\* false together with the value 0
AbsentReportsZero ==
    (ret.op = "ExistsBytes" /\ ExistsLoop(pre, ret.arg[1], 0) = "false")
        => ret.err = Nil /\ ret.val = <<FALSE, Flt(0, 1)>>

\* C13: ExistsBytes of an element with all its k positions set returns true
\* together with the value Accuracy() returns in that state: -1 on a loaded
\* filter, the computed rate otherwise
PresentReportsAccuracy ==
    (ret.op = "ExistsBytes" /\ ExistsLoop(pre, ret.arg[1], 0) = "true")
        => /\ ret.err = Nil
           /\ ret.val = <<TRUE, Accuracy(pre)>>
           /\ ret.val[2] = IF pre.isLoaded THEN MinusOne
                           ELSE falsePositiveRate(pre.len, pre.n, pre.k)
           /\ b = pre

\* a present element queried on a filter with two entries, the rate
\* returned below 1
PresentReportsAccuracyWitness ==
    /\ ret.op = "ExistsBytes"
    /\ ret.val # << >>
    /\ ret.val[1] = TRUE
    /\ ~pre.isLoaded
    /\ pre.n >= 2
    /\ FloatGt(Flt(1, 1), ret.val[2])

\* C14: Accuracy() of a filter that is not loaded is 1 when n == 0 and
\* falsePositiveRate(len, n, k) when n >= 1, in every reachable state and
\* at every call
AccuracyOfBuiltFilter ==
    /\ (pc = "live" /\ ~b.isLoaded)
           => Accuracy(b) = IF b.n = 0 THEN Flt(1, 1)
                            ELSE falsePositiveRate(b.len, b.n, b.k)
    /\ (ret.op = "Accuracy" /\ ~pre.isLoaded)
           => /\ ret.err = Nil
              /\ ret.val = <<IF pre.n = 0 THEN Flt(1, 1)
                             ELSE falsePositiveRate(pre.len, pre.n, pre.k)>>
              /\ b = pre
    /\ (built # << >> /\ built[1] # "FromBytes" /\ ret.op = built[1])
           => Accuracy(b) = Flt(1, 1)

\* Accuracy() called on a built filter with two entries
AccuracyOfBuiltFilterWitness ==
    /\ ret.op = "Accuracy"
    /\ ~pre.isLoaded
    /\ pre.n >= 2
    /\ FloatGt(Flt(1, 1), ret.val[1])

\* C15: a filter built by FromBytes stays loaded and Accuracy() returns -1
\* on it in every reachable state and at every call, also after PutBytes
\* calls that succeeded
LoadedSentinel ==
    /\ (built # << >> /\ built[1] = "FromBytes")
           => b.isLoaded /\ Accuracy(b) = MinusOne
    /\ (ret.op = "Accuracy" /\ pre.isLoaded) => ret.val = <<MinusOne>>

\* Accuracy() called on a loaded filter after an insert was admitted
LoadedSentinelWitness ==
    /\ ret.op = "Accuracy"
    /\ built[1] = "FromBytes"
    /\ pre.n >= 1
    /\ inserted # {}

\* C16: on a loaded filter AddCapacityConstraint and AddAccuracyConstraint
\* return an error for every argument and change nothing, both constraints
\* stay absent, and PutBytes never returns a CapacityError or an
\* AccuracyError
NoConstraintOnLoaded ==
    /\ b.isLoaded => b.cap = << >> /\ b.maxFalsePositiveRate = << >>
    /\ (ret.op \in {"AddCapacityConstraint", "AddAccuracyConstraint"}
        /\ pre.isLoaded)
           => /\ ret.err = ErrorsNew("cannot add constraints to loaded bloom filters")
              /\ b = pre
    /\ (ret.op = "PutBytes" /\ pre.isLoaded)
           => ret.err.type \notin {"CapacityError", "AccuracyError"}

\* a valid capacity refused on a loaded filter that holds an entry
NoConstraintOnLoadedWitness ==
    /\ ret.op = "AddCapacityConstraint"
    /\ pre.isLoaded
    /\ ret.arg[1] >= 1
    /\ pre.n >= 1

\* C17: constructor validation: NewBigBloomFromK and FromBytes fail when
\* k < 1, NewBigBloomFromCap and NewBigBloomAlloc when capacity < 1,
\* NewBigBloomFromAcc and NewBigBloomAlloc when the rate is <= 0 or >= 1;
\* a failing constructor returns no filter, and NewBigBloomAlloc reports
\* the capacity when both arguments are invalid
ConstructorValidation ==
    LET failed(msg) == ret.err = ErrorsNew(msg) /\ b = NilFilter /\ pc = "new"
        outside(rate) == FloatLe(rate, Flt(0, 1)) \/ FloatGe(rate, Flt(1, 1))
    IN  /\ (ret.op \in {"NewBigBloomFromK", "FromBytes"} /\ ret.arg[2] < 1)
               => failed("k cannot be less than 1")
        /\ (ret.op = "NewBigBloomFromCap" /\ ret.arg[2] < 1)
               => failed("capacity cannot be less than 1")
        /\ (ret.op = "NewBigBloomAlloc" /\ ret.arg[1] < 1)
               => failed("capacity cannot be less than 1")
        /\ (ret.op = "NewBigBloomFromAcc" /\ outside(ret.arg[2]))
               => failed("false positive rate must be between 0 and 1")
        /\ (ret.op = "NewBigBloomAlloc" /\ ret.arg[1] >= 1 /\ outside(ret.arg[2]))
               => failed("false positive rate must be between 0 and 1")

\* NewBigBloomAlloc called with both arguments invalid
ConstructorValidationWitness ==
    /\ ret.op = "NewBigBloomAlloc"
    /\ ret.arg[1] < 1
    /\ FloatGe(ret.arg[2], Flt(1, 1))
    /\ ret.err.type = "error"

\* C18: attach validation: AddCapacityConstraint(c) with c < 1 and
\* AddAccuracyConstraint(r) with r <= 0 or r >= 1 return an error and leave
\* the filter as before; no out-of-range value is ever stored
AttachValidation ==
    /\ (ret.op = "AddCapacityConstraint" /\ ret.arg[1] < 1)
           => ret.err.type = "error" /\ b = pre
    /\ (ret.op = "AddAccuracyConstraint"
        /\ (FloatLe(ret.arg[1], Flt(0, 1)) \/ FloatGe(ret.arg[1], Flt(1, 1))))
           => ret.err.type = "error" /\ b = pre
    /\ b.cap # << >> => b.cap[1] >= 1
    /\ b.maxFalsePositiveRate # << >>
           => /\ FloatGt(b.maxFalsePositiveRate[1], Flt(0, 1))
              /\ FloatGt(Flt(1, 1), b.maxFalsePositiveRate[1])

\* the rate 0 refused on a built filter that holds an entry and a capacity
AttachValidationWitness ==
    /\ ret.op = "AddAccuracyConstraint"
    /\ ret.arg[1] = Flt(0, 1)
    /\ ~pre.isLoaded
    /\ pre.n >= 1
    /\ pre.cap # << >>

\* C19: a filter constructed from a capacity c enforces c: PutBytes of an
\* element that does not test present succeeds while n < c and fails with
\* CapacityError{c} once c elements are in
ConstructedCapacityEnforced ==
    (/\ built # << >>
     /\ built[1] = "NewBigBloomFromCap"
     /\ ret.op = "PutBytes"
     /\ ExistsLoop(pre, ret.arg[1], 0) = "false")
        => IF pre.n >= built[2][2]
           THEN ret.err = CapacityError(built[2][2]) /\ b = pre
           ELSE ret.err = Nil /\ b.n = pre.n + 1

\* C20: a filter constructed from a rate r enforces r: PutBytes of an
\* element that does not test present fails with AccuracyError{r} whenever
\* falsePositiveRate(len, n+1, k) > r
ConstructedRateEnforced ==
    (/\ built # << >>
     /\ built[1] = "NewBigBloomFromAcc"
     /\ ret.op = "PutBytes"
     /\ ExistsLoop(pre, ret.arg[1], 0) = "false"
     /\ FloatGt(falsePositiveRate(pre.len, pre.n + 1, pre.k), built[2][2]))
        => ret.err = AccuracyError(built[2][2]) /\ b = pre

\* C21: the filter NewBigBloomAlloc(c, r) returns for c >= 1 and 0 < r < 1
\* has both constraints attached and falsePositiveRate(len, c, k) <= r
AllocatorKeepsBound ==
    (ret.op = "NewBigBloomAlloc" /\ ret.err = Nil)
        => /\ b.cap = <<ret.arg[1]>>
           /\ b.maxFalsePositiveRate = <<ret.arg[2]>>
           /\ FloatLe(falsePositiveRate(b.len, ret.arg[1], b.k), ret.arg[2])

\* the calls made on a live filter
MethodOps ==
    {"PutBytes", "ExistsBytes", "ExistsStr", "Accuracy", "Hex",
     "AddCapacityConstraint", "AddAccuracyConstraint", "ExportImport"}

\* bit j of the byte x
BitSet(x, j) == (x \div (2 ^ j)) % 2 = 1

\* every bit that is 1 in old is 1 in new
BitsKept(old, new) ==
    /\ Len(new) = Len(old)
    /\ \A i \in 1..Len(old) : \A j \in 0..7 :
           BitSet(old[i], j) => BitSet(new[i], j)

\* C22: bits are monotonic: every bit that was 1 when a call was made on
\* the filter (PutBytes, ExistsBytes, ExistsStr, Accuracy, Hex, the two
\* Add...Constraint calls) is 1 after it; no call clears a bit
BitsMonotonic ==
    ret.op \in MethodOps => BitsKept(pre.bs, b.bs)

\* a PutBytes that admitted an element into a filter that held bits already
\* and set a bit of its own
BitsMonotonicWitness ==
    /\ ret.op = "PutBytes"
    /\ ret.err = Nil
    /\ \E i \in 1..Len(pre.bs) : pre.bs[i] # 0
    /\ b.bs # pre.bs

\* C23: entry_count never decreases and changes only by +1, on a PutBytes
\* that admitted an element which did not test present; PutBytes of an
\* element that tests present, a rejected PutBytes and every other call
\* leave it unchanged
EntryCountSteps ==
    ret.op \in MethodOps
        => IF /\ ret.op = "PutBytes"
              /\ ret.err = Nil
              /\ ExistsLoop(pre, ret.arg[1], 0) = "false"
           THEN b.n = pre.n + 1
           ELSE b.n = pre.n

\* the three kinds of PutBytes on a filter that holds an element: this one
\* admitted a second element
EntryCountStepsWitness ==
    /\ ret.op = "PutBytes"
    /\ ret.err = Nil
    /\ pre.n = 1
    /\ b.n = 2
    /\ Cardinality(inserted) = 2

\* C24: hash_count >= 1 in every filter a constructor returned, whatever
\* was called on it since, and no call on the filter changes k
HashCountPositive ==
    /\ pc = "live" => b.k >= 1
    /\ ret.op \in MethodOps => b.k = pre.k

\* a filter whose k was derived from a capacity far above its bit count,
\* and clamped to 1, after a call was made on it
HashCountPositiveWitness ==
    /\ pc = "live"
    /\ built # << >>
    /\ built[1] = "NewBigBloomAlloc"
    /\ built[2][1] = BigCap
    /\ b.len = 1
    /\ b.k = 1
    /\ ret.op = "PutBytes"
    /\ ret.err = Nil

\* C25: the bit-vector length is immutable: in a filter a constructor
\* returned len is the length of the byte slice, and no call on the filter
\* changes either
LenImmutable ==
    /\ pc = "live" => b.len = Len(b.bs)
    /\ ret.op \in MethodOps => b.len = pre.len /\ Len(b.bs) = Len(pre.bs)

\* a filter of one byte and more after a PutBytes changed its bits
LenImmutableWitness ==
    /\ ret.op = "PutBytes"
    /\ ret.err = Nil
    /\ b.bs # pre.bs
    /\ b.len >= 1
    /\ b.len = pre.len

\* PutBytes was called with an entry count at the capacity attached
PreAtCapacity == pre.cap # << >> /\ pre.n = pre.cap[1]

\* PutBytes was called with a rate attached that one more entry exceeds
PreOverRate ==
    /\ pre.maxFalsePositiveRate # << >>
    /\ FloatGt(falsePositiveRate(pre.len, pre.n + 1, pre.k),
               pre.maxFalsePositiveRate[1])

\* C28: PutBytes tests presence, then capacity, then accuracy: an element
\* that tests present returns nil whatever the constraints; for one that
\* does not, when n == cap and the projected rate exceeds the bound as well
\* the error is the CapacityError, and an AccuracyError is returned only
\* when the capacity test passed
PutBytesCheckOrder ==
    ret.op = "PutBytes"
        => /\ ExistsLoop(pre, ret.arg[1], 0) = "true" => ret.err = Nil
           /\ (/\ ExistsLoop(pre, ret.arg[1], 0) = "false"
               /\ PreAtCapacity
               /\ PreOverRate) => ret.err = CapacityError(pre.cap[1])
           /\ ret.err.type = "AccuracyError"
                  => /\ ExistsLoop(pre, ret.arg[1], 0) = "false"
                     /\ ~PreAtCapacity
                     /\ PreOverRate

\* a PutBytes of an element that does not test present, at capacity and
\* with the projected rate above the bound
PutBytesCheckOrderWitness ==
    /\ ret.op = "PutBytes"
    /\ ExistsLoop(pre, ret.arg[1], 0) = "false"
    /\ PreAtCapacity
    /\ PreOverRate

\* the bit positions the indexer yields for the element bs in a filter of
\* totBits bits and kk slots
Positions(bs, totBits, kk) == {bitI(bs, i, totBits) : i \in 0..(kk - 1)}

\* C29: a PutBytes(e) that admits e sets to 1 exactly the bits at the k
\* positions of e, each in [0, 8*len) and the positions ExistsBytes(e)
\* tests, and leaves every other bit, k, len, both constraints and the
\* loaded flag unchanged
AdmittedInsertEffect ==
    (/\ ret.op = "PutBytes"
     /\ ret.err = Nil
     /\ ExistsLoop(pre, ret.arg[1], 0) = "false")
        => /\ Positions(ret.arg[1], 8 * pre.len, pre.k) \subseteq 0..(8 * pre.len - 1)
           /\ Len(b.bs) = Len(pre.bs)
           /\ \A p \in 0..(8 * pre.len - 1) :
                  BitSet(b.bs[(p \div 8) + 1], p % 8)
                      <=> \/ BitSet(pre.bs[(p \div 8) + 1], p % 8)
                          \/ p \in Positions(ret.arg[1], 8 * pre.len, pre.k)
           /\ ExistsLoop(b, ret.arg[1], 0) = "true"
           /\ b = [pre EXCEPT !.bs = b.bs, !.n = pre.n + 1]

\* an element admitted into a filter of two slots and more that held bits
\* already and kept some bit 0
AdmittedInsertEffectWitness ==
    /\ ret.op = "PutBytes"
    /\ ret.err = Nil
    /\ ExistsLoop(pre, ret.arg[1], 0) = "false"
    /\ pre.k >= 2
    /\ \E i \in 1..Len(pre.bs) : pre.bs[i] # 0
    /\ \E i \in 1..Len(b.bs) : b.bs[i] # 255

\* C26: export/import round trip: the filter G = FromBytes(the bytes of F's
\* Hex() string, k of F) has the bytes and the k of F and answers
\* ExistsBytes(e) as F does for every element e, so every element inserted
\* into F tests present in G
ExportImportRoundTrip ==
    ret.op = "ExportImport"
        => /\ ret.err = Nil
           /\ ret.val[1].bs = b.bs
           /\ ret.val[1].k = b.k
           /\ \A e \in Elements :
                  ExistsLoop(ret.val[1], e, 0) = ExistsLoop(b, e, 0)
           /\ \A e \in inserted : ExistsBytes(ret.val[1], e).val[1]

\* a filter that holds an element and not another, exported and imported
ExportImportRoundTripWitness ==
    /\ ret.op = "ExportImport"
    /\ inserted # {}
    /\ \E e \in Elements : ExistsLoop(b, e, 0) = "false"
    /\ \E e \in Elements : ExistsLoop(ret.val[1], e, 0) = "true"

\* the formula (1 - (1 - 1/m)^(n*k))^k evaluated without rounding to
\* float64, every step correct to 2^-70
RealRate(length, nn, kk) ==
    FixPow(FixSub(FixOne,
                  FixPow(FixSub(FixOne, FixFromRatio(1, length * 8)), nn * kk)),
           kk)

\* | x - y |
FixAbsDiff(x, y) == IF FixCmp(x, y) >= 0 THEN FixSub(x, y) ELSE FixSub(y, x)

\* m is a power of two
IsPow2(m) == m = Pow2(BitLen(m) - 1)

\* C27 as stated: falsePositiveRate(len, n, k) for len >= 1, n >= 0, k >= 1
\* is 0 at n = 0, exactly 1/m at n = k = 1 with m = 8*len, and not above
\* falsePositiveRate(len, n + 1, k)
RateExactAtOne ==
    ret.op = "falsePositiveRate"
        => LET length == ret.arg[1]
               nn == ret.arg[2]
               kk == ret.arg[3]
           IN  /\ nn = 0 => ret.val[1] = Flt(0, 1)
               /\ (nn = 1 /\ kk = 1)
                      => ret.val[1].mag = Float64Quo(1, length * 8)
               /\ FloatLe(ret.val[1], falsePositiveRate(length, nn + 1, kk))

\* C27, amended: falsePositiveRate(len, n, k) is the float64 evaluation of
\* (1 - (1 - 1/m)^(n*k))^k, within 2^-44 of the formula: it is 0 at n = 0;
\* at n = k = 1 it is exactly 1/m when m is a power of two and within 2^-53
\* of 1/m otherwise; and it is not above falsePositiveRate(len, n + 1, k)
RateNearFormula ==
    ret.op = "falsePositiveRate"
        => LET length == ret.arg[1]
               nn == ret.arg[2]
               kk == ret.arg[3]
           IN  /\ ~ret.val[1].inf /\ ~ret.val[1].neg
               /\ FixCmp(FixAbsDiff(ret.val[1].mag, RealRate(length, nn, kk)),
                         FixBit(44)) <= 0
               /\ nn = 0 => ret.val[1] = Flt(0, 1)
               /\ (nn = 1 /\ kk = 1)
                      => IF IsPow2(length * 8)
                         THEN ret.val[1] = Flt(1, length * 8)
                         ELSE FixCmp(FixAbsDiff(ret.val[1].mag,
                                                Float64Quo(1, length * 8)),
                                     FixBit(53)) <= 0
               /\ FloatLe(ret.val[1], falsePositiveRate(length, nn + 1, kk))

\* falsePositiveRate(3, 1, 1): m = 24 is not a power of two and the rate is
\* not the float64 1/24
RateNearFormulaWitness ==
    /\ ret.op = "falsePositiveRate"
    /\ ret.arg = <<3, 1, 1>>
    /\ ret.val[1].mag # Float64Quo(1, 24)

\* what the query q returns when no other goroutine runs
QueryAlone(q) ==
    CASE q.op = "ExistsBytes" -> ExistsBytes(b, q.arg[1]).val
      [] q.op = "ExistsStr" -> ExistsStr(b, q.arg[1]).val
      [] q.op = "Accuracy" -> <<Accuracy(b)>>
      [] q.op = "Hex" -> <<Hex(b)>>

\* C30: queries are read-only: ExistsBytes, ExistsStr, Accuracy and Hex
\* leave every field of the filter unchanged, and each of any number of
\* them running concurrently returns what it returns alone
QueriesReturnAsAlone ==
    /\ queries # << >> => b = pre
    /\ \A g \in DOMAIN queries :
           queries[g].at = "done" => queries[g].val = QueryAlone(queries[g])


\* the constructors that build an empty filter
Builders ==
    {"NewBigBloomFromK", "NewBigBloomFromCap", "NewBigBloomFromAcc",
     "NewBigBloomAlloc"}

\* the live filter was returned by one of the Builders
LocallyBuilt == pc = "live" /\ built # << >> /\ built[1] \in Builders

\* C32: an empty filter has no members: on a filter of len >= 1 returned by
\* NewBigBloomFromK, NewBigBloomFromCap, NewBigBloomFromAcc or
\* NewBigBloomAlloc, ExistsBytes returns false for every element before any
\* Put, and in every state ExistsBytes returning true implies that a Put was
\* admitted (entry count >= 1)
EmptyHasNoMembers ==
    /\ (LocallyBuilt /\ b.len >= 1 /\ inserted = {})
           => \A e \in Elements : ExistsBytes(b, e) = [err |-> Nil, val |-> <<FALSE, Flt(1, 1)>>]
    /\ (LocallyBuilt /\ b.len >= 1 /\ inserted = {}
            /\ ret.op \in {"ExistsBytes", "ExistsStr"})
           => ret.err = Nil /\ ret.val[1] = FALSE
    /\ (LocallyBuilt /\ ret.op \in {"ExistsBytes", "ExistsStr"}
            /\ ret.err = Nil /\ ret.val[1] = TRUE)
           => b.n >= 1 /\ inserted # {}

\* ExistsBytes called on the filter NewBigBloomAlloc returned, after calls
\* of PutBytes none of which was admitted
EmptyHasNoMembersWitness ==
    /\ LocallyBuilt
    /\ built[1] = "NewBigBloomAlloc"
    /\ ret.op = "ExistsBytes"
    /\ ret.val[1] = FALSE
    /\ b.len >= 1
    /\ b.n = 0
    /\ inserted = {}


\* the positions of the bits of the filter f that are 1
BitsOf(f) ==
    {j \in 0..(Len(f.bs) * 8 - 1) : BitSet(f.bs[(j \div 8) + 1], j % 8)}

\* C31: on a filter that was built locally, entry count <= number of set
\* bits <= entry count * k in every state: an insert that is counted sets
\* at least one bit that was unset and at most k bits.  So the entry count
\* is at most 8 * len, and once every bit is set each PutBytes returns nil
\* and leaves the filter as it was
EntryCountWithinBits ==
    /\ ~b.isLoaded
           => /\ b.n <= Cardinality(BitsOf(b))
              /\ Cardinality(BitsOf(b)) <= b.n * b.k
              /\ b.n <= 8 * b.len
    /\ (ret.op = "PutBytes" /\ ~pre.isLoaded /\ b.n # pre.n)
           => /\ b.n = pre.n + 1
              /\ Cardinality(BitsOf(b) \ BitsOf(pre)) \in 1..pre.k
              /\ BitsOf(pre) \subseteq BitsOf(b)
    /\ (ret.op = "PutBytes" /\ ~pre.isLoaded /\ pre.len >= 1
            /\ Cardinality(BitsOf(pre)) = 8 * pre.len)
           => ret.err = Nil /\ b = pre

\* PutBytes called on a filter in which two inserts, setting fewer than k
\* bits each, have set every bit
EntryCountWithinBitsWitness ==
    /\ ret.op = "PutBytes"
    /\ ~pre.isLoaded
    /\ pre.len >= 1
    /\ pre.n >= 2
    /\ Cardinality(BitsOf(pre)) = 8 * pre.len
    /\ Cardinality(BitsOf(pre)) < pre.n * pre.k
    /\ ret.err = Nil
    /\ b = pre


\* the smaller of two numbers
Min(x, y) == IF x <= y THEN x ELSE y

\* C34: the nonce of a slot is the slot index truncated to one byte: the
\* position of slot i depends only on the element, i mod 256 and 8 * len,
\* so the slots i and i + 256 of a filter with k > 256 have the same
\* position, and an insert sets at most min(k, 256) distinct bits
SlotNonceWraps ==
    /\ ret.op = "bitI"
           => /\ ret.val[1] = bitI(ret.arg[1], ret.arg[2] % NonceCount, Len(b.bs) * 8)
              /\ ret.arg[2] >= NonceCount
                     => ret.val[1] = bitI(ret.arg[1], ret.arg[2] - NonceCount,
                                          Len(b.bs) * 8)
    /\ (ret.op = "PutBytes" /\ b.n # pre.n)
           => /\ BitsOf(b) = BitsOf(pre)
                     \cup Positions(ret.arg[1], Len(pre.bs) * 8, Min(pre.k, NonceCount))
              /\ Cardinality(BitsOf(b) \ BitsOf(pre)) <= Min(pre.k, NonceCount)

\* the position of a slot past 255 asked for on a filter of 512 bits and
\* more than 256 slots that holds an element
SlotNonceWrapsWitness ==
    /\ ret.op = "bitI"
    /\ ret.arg[2] >= NonceCount
    /\ b.k > NonceCount
    /\ b.len = 64
    /\ b.n >= 1


\* the two filters agree on the bits, len, k, n and the constraints
SameTuple(f, g) ==
    /\ f.bs = g.bs
    /\ f.len = g.len
    /\ f.k = g.k
    /\ f.n = g.n
    /\ f.cap = g.cap
    /\ f.maxFalsePositiveRate = g.maxFalsePositiveRate

\* C33 as stated: determinism: two filters built with the same len and k
\* and given the same sequence of PutBytes calls hold the same bits and the
\* same entry count, and ExistsBytes returns the same on both for every
\* element; what PutBytes and ExistsBytes return depends only on the bits,
\* len, k, n, the constraints and the element
OutcomeOfTuple ==
    /\ (twin # NilFilter /\ pc = "live")
           => /\ SameTuple(twin, b)
              /\ \A e \in Elements : ExistsBytes(twin, e) = ExistsBytes(b, e)
    /\ (twin # NilFilter /\ pc = "live" /\ ret.op \in {"PutBytes", "ExistsBytes"})
           => ret.val[1] = ret.val[2]

\* C33, amended: two filters with the same bits, len, k, n and constraints
\* that are given the same calls keep the same bits, len, k, n and
\* constraints; PutBytes returns the same on both, and ExistsBytes the same
\* boolean; the rate ExistsBytes returns is the same on two filters that
\* are both loaded or both not, and with true it is -1 on a loaded filter
\* and the computed rate on the other
TwinsAgree ==
    /\ (twin # NilFilter /\ pc = "live")
           => /\ SameTuple(twin, b)
              /\ \A e \in Elements :
                     /\ ExistsBytes(twin, e).err = ExistsBytes(b, e).err
                     /\ ExistsBytes(twin, e).val[1] = ExistsBytes(b, e).val[1]
                     /\ twin.isLoaded = b.isLoaded
                            => ExistsBytes(twin, e) = ExistsBytes(b, e)
    /\ (twin # NilFilter /\ pc = "behind") => SameTuple(twin, pre)
    /\ (twin # NilFilter /\ pc = "live" /\ ret.op = "PutBytes")
           => ret.val[1] = ret.val[2]
    /\ (twin # NilFilter /\ pc = "live" /\ ret.op = "ExistsBytes")
           => /\ ret.val[1][1] = ret.val[2][1]
              /\ twin.isLoaded = b.isLoaded => ret.val[1] = ret.val[2]
              /\ (ret.val[1][1] /\ twin.isLoaded /\ ~b.isLoaded)
                     => /\ ret.val[2][2] = MinusOne
                        /\ ret.val[1][2] = falsePositiveRate(b.len, b.n, b.k)

\* ExistsBytes has returned true on a filter that was built and on a loaded
\* one with the same bits, len, k and n, after the two were given the same
\* PutBytes calls, with slices that differ in what follows the bytes
TwinsAgreeWitness ==
    /\ twin # NilFilter
    /\ pc = "live"
    /\ ret.op = "ExistsBytes"
    /\ ret.val[1][1] = TRUE
    /\ twin.isLoaded
    /\ ~b.isLoaded
    /\ b.n >= 2
    /\ ret.val[1] # ret.val[2]

====
